---- MODULE Spec2Model ----
(***************************************************************************)
(* Model of the 1Password Connect MCP server: the worker's fetch handler,  *)
(* the per-request client adapter, the error taxonomy, the tool handlers   *)
(* and the response formatter.                                             *)
(*                                                                         *)
(* JavaScript strings are sequences of tokens (<<>> is the empty string),  *)
(* so that concatenation, the trailing-slash regex and parseInt act on     *)
(* them as the code does.  An optional value (a header that may be null, a *)
(* field that may be undefined) is None or Some(v).                        *)
(***************************************************************************)
EXTENDS Integers, Sequences, FiniteSets

VARIABLES pc, req, server, call, out, outcome, resp, nextObj, globals, applied

vars == <<pc, req, server, call, out, outcome, resp, nextObj, globals, applied>>

\* ------------------------------------------------------------------------
\* Bounds
\* ------------------------------------------------------------------------
MaxCalls == 2
MaxStrLen == 2

Calls == 1..MaxCalls

\* ------------------------------------------------------------------------
\* Optional values and JavaScript values
\* ------------------------------------------------------------------------
None == [some |-> FALSE]
Some(x) == [some |-> TRUE, v |-> x]

Undefined == [t |-> "undefined"]
JNull == [t |-> "null"]
JStr(s) == [t |-> "string", s |-> s]
JNum(n) == [t |-> "number", n |-> n]
JArr(es) == [t |-> "array", es |-> es]
JObj(f) == [t |-> "object", f |-> f]
JBool(b) == [t |-> "boolean", b |-> b]
JNaN == [t |-> "NaN"]

\* JavaScript truthiness of a value
Truthy(v) ==
  CASE v.t = "undefined" -> FALSE
    [] v.t = "null" -> FALSE
    [] v.t = "string" -> v.s # <<>>
    [] v.t = "number" -> v.n # 0
    [] v.t = "boolean" -> v.b
    [] v.t = "NaN" -> FALSE
    [] OTHER -> TRUE

\* The decimal digits of an integer, as a string
DigitChar(d) ==
  CASE d = 0 -> "0" [] d = 1 -> "1" [] d = 2 -> "2" [] d = 3 -> "3" [] d = 4 -> "4"
    [] d = 5 -> "5" [] d = 6 -> "6" [] d = 7 -> "7" [] d = 8 -> "8" [] d = 9 -> "9"

RECURSIVE DecNat(_)
DecNat(n) == IF n < 10 THEN <<DigitChar(n)>> ELSE DecNat(n \div 10) \o <<DigitChar(n % 10)>>

Dec(n) == IF n < 0 THEN <<"-">> \o DecNat(0 - n) ELSE DecNat(n)

\* String(v) for the values an error body can hold
String(v) ==
  CASE v.t = "string" -> v.s
    [] v.t = "number" -> Dec(v.n)
    [] v.t = "boolean" -> IF v.b THEN <<"true">> ELSE <<"false">>
    [] v.t = "array" -> <<"[array]">>
    [] v.t = "object" -> <<"[object Object]">>
    [] OTHER -> <<v.t>>

\* v.k : a property read; reading a property of null or undefined throws
HasProps(v) == v.t \notin {"undefined", "null"}
GetProp(v, k) ==
  IF v.t = "object" /\ k \in DOMAIN v.f THEN v.f[k] ELSE Undefined

\* ------------------------------------------------------------------------
\* Module-level state of the entry point
\* ------------------------------------------------------------------------
SERVER_NAME == <<"primrose-mcp-1password">>
SERVER_VERSION == <<"1.0.0">>
ModuleState == [SERVER_NAME |-> SERVER_NAME, SERVER_VERSION |-> SERVER_VERSION]

TOKEN_HEADER == "X-1Password-Connect-Token"
HOST_HEADER == "X-1Password-Connect-Host"

\* ------------------------------------------------------------------------
\* Tenant credentials
\* ------------------------------------------------------------------------
\* headers.get(name) || undefined : null and the empty string both give undefined
OrUndefined(h) == IF h.some /\ h.v # <<>> THEN h ELSE None

parseTenantCredentials(request) ==
  [connectToken |-> OrUndefined(request.token),
   connectHost |-> OrUndefined(request.host)]

PlainError(message) == [class |-> "Error", name |-> <<"Error">>, message |-> message]

Returned(v) == [throw |-> FALSE, value |-> v]
Thrown(e) == [throw |-> TRUE, error |-> e]

validateCredentialsHostFirst(credentials) ==
  IF ~credentials.connectHost.some
  THEN Thrown(PlainError(<<"Missing ", HOST_HEADER,
         " header. Provide your Connect server URL (e.g., http://localhost:8080).">>))
  ELSE IF ~credentials.connectToken.some
  THEN Thrown(PlainError(<<"Missing ", TOKEN_HEADER,
         " header. Provide your Connect server token.">>))
  ELSE Returned(Undefined)

validateCredentialsLax(credentials) ==
  IF ~credentials.connectToken.some /\ ~credentials.connectHost.some
  THEN Thrown(PlainError(<<"Missing ", TOKEN_HEADER,
         " header. Provide your Connect server token.">>))
  ELSE Returned(Undefined)

validateCredentials(credentials) ==
  IF ~credentials.connectToken.some
  THEN Thrown(PlainError(<<"Missing ", TOKEN_HEADER,
         " header. Provide your Connect server token.">>))
  ELSE IF ~credentials.connectHost.some
  THEN Thrown(PlainError(<<"Missing ", HOST_HEADER,
         " header. Provide your Connect server URL (e.g., http://localhost:8080).">>))
  ELSE Returned(Undefined)

\* ------------------------------------------------------------------------
\* Error taxonomy
\* ------------------------------------------------------------------------
ApiClasses == {"OnePasswordApiError", "RateLimitError", "AuthenticationError",
               "AuthorizationError", "NotFoundError", "ValidationError"}

\* error instanceof OnePasswordApiError / error instanceof Error
IsApiError(e) == e.class \in ApiClasses
IsError(e) == e.class \in ApiClasses \cup {"Error"}

\* retryAfterSeconds is a JavaScript number: an integer or NaN
NaN == [nan |-> TRUE]
Number(n) == [nan |-> FALSE, n |-> n]

\* code || 'ONEPASSWORD_ERROR', retryable = false
OnePasswordApiError(message, statusCode) ==
  [class |-> "OnePasswordApiError", name |-> <<"OnePasswordApiError">>,
   message |-> message, statusCode |-> statusCode,
   code |-> "ONEPASSWORD_ERROR", retryable |-> FALSE]

RateLimitError(message, retryAfterSeconds) ==
  [class |-> "RateLimitError", name |-> <<"RateLimitError">>,
   message |-> message, statusCode |-> 429,
   code |-> "RATE_LIMIT_EXCEEDED", retryable |-> TRUE,
   retryAfterSeconds |-> retryAfterSeconds]

AuthenticationError(message) ==
  [class |-> "AuthenticationError", name |-> <<"AuthenticationError">>,
   message |-> message, statusCode |-> 401,
   code |-> "AUTHENTICATION_FAILED", retryable |-> FALSE]

AuthorizationError(message) ==
  [class |-> "AuthorizationError", name |-> <<"AuthorizationError">>,
   message |-> message, statusCode |-> 403,
   code |-> "AUTHORIZATION_FAILED", retryable |-> FALSE]

NotFoundError(entityType, id) ==
  [class |-> "NotFoundError", name |-> <<"NotFoundError">>,
   message |-> <<entityType, " with ID '">> \o id \o <<"' not found">>,
   statusCode |-> 404,
   code |-> "NOT_FOUND", retryable |-> FALSE]

\* details defaults to {}
ValidationError(message, details) ==
  [class |-> "ValidationError", name |-> <<"ValidationError">>,
   message |-> message, statusCode |-> 400,
   code |-> "VALIDATION_ERROR", retryable |-> FALSE, details |-> details]

\* A thrown value that is not an Error
NonError(v) == [class |-> "value", value |-> v]

\* Failures the runtime raises: a rejected fetch, a body that is not JSON,
\* a property read on null or undefined
TypeError(message) == [class |-> "Error", name |-> <<"TypeError">>, message |-> message]
SyntaxError(message) == [class |-> "Error", name |-> <<"SyntaxError">>, message |-> message]

\* String.prototype.includes, for a pattern that is one token of the text
includes(text, pattern) == \E i \in DOMAIN text : text[i] = pattern

isRetryableErrorByMessage(error) ==
  IF IsError(error)
  THEN \/ includes(error.message, "network")
       \/ includes(error.message, "timeout")
       \/ includes(error.message, "ECONNRESET")
  ELSE FALSE

isRetryableError(error) ==
  IF IsApiError(error)
  THEN error.retryable
  ELSE IF IsError(error)
  THEN \/ includes(error.message, "network")
       \/ includes(error.message, "timeout")
       \/ includes(error.message, "ECONNRESET")
  ELSE FALSE

\* ------------------------------------------------------------------------
\* parseInt(s, 10)
\* ------------------------------------------------------------------------
Digits == {"0", "1", "2", "3", "4", "5", "6", "7", "8", "9"}
DigitVal(ch) ==
  CASE ch = "0" -> 0 [] ch = "1" -> 1 [] ch = "2" -> 2 [] ch = "3" -> 3
    [] ch = "4" -> 4 [] ch = "5" -> 5 [] ch = "6" -> 6 [] ch = "7" -> 7
    [] ch = "8" -> 8 [] ch = "9" -> 9

RECURSIVE SkipSpace(_)
SkipSpace(s) == IF s # <<>> /\ Head(s) = " " THEN SkipSpace(Tail(s)) ELSE s

\* the longest prefix of digits, as <<value, number of digits>>
RECURSIVE DigitPrefix(_, _, _)
DigitPrefix(s, acc, n) ==
  IF s # <<>> /\ Head(s) \in Digits
  THEN DigitPrefix(Tail(s), 10 * acc + DigitVal(Head(s)), n + 1)
  ELSE <<acc, n>>

parseInt(str) ==
  LET s == SkipSpace(str)
      neg == s # <<>> /\ Head(s) = "-"
      t == IF s # <<>> /\ Head(s) \in {"-", "+"} THEN Tail(s) ELSE s
      d == DigitPrefix(t, 0, 0)
  IN IF d[2] = 0 THEN NaN
     ELSE Number(IF neg THEN 0 - d[1] ELSE d[1])

\* ------------------------------------------------------------------------
\* Configuration read from the environment
\* ------------------------------------------------------------------------
\* env[key] is a string, or undefined when the variable is not set
getEnvNumberUnguarded(env, key, defaultValue) ==
  IF env[key].some THEN parseInt(env[key].v) ELSE Number(defaultValue)

getEnvNumber(env, key, defaultValue) ==
  IF env[key].some
  THEN LET parsed == parseInt(env[key].v)
       IN IF parsed.nan THEN Number(defaultValue) ELSE parsed
  ELSE Number(defaultValue)

getCharacterLimit(env) == getEnvNumber(env, "CHARACTER_LIMIT", 50000)
getDefaultPageSize(env) == getEnvNumber(env, "DEFAULT_PAGE_SIZE", 20)
getMaxPageSize(env) == getEnvNumber(env, "MAX_PAGE_SIZE", 100)

\* ------------------------------------------------------------------------
\* JSON text
\* ------------------------------------------------------------------------
\* A text is a string: a sequence of characters.  The punctuation of JSON, the
\* quote, the backslash, the space and the line feed are characters of their
\* own; any other token stands for a run of ordinary characters.

EscapeNothing(s) == s

\* the characters of a string literal: quote, backslash and line feed escaped
RECURSIVE Escape(_)
Escape(s) ==
  IF s = <<>> THEN <<>>
  ELSE (CASE Head(s) \in {"\"", "\\"} -> <<"\\", Head(s)>>
          [] Head(s) = "\n" -> <<"\\", "n">>
          [] OTHER -> <<Head(s)>>) \o Escape(Tail(s))

Quote(s) == <<"\"">> \o Escape(s) \o <<"\"">>

\* the line break and indentation before a nested element; nothing when
\* JSON.stringify has no space argument
NewLine(space, depth) == IF space = 0 THEN <<>> ELSE <<"\n">> \o [i \in 1..(space * depth) |-> " "]

RECURSIVE Join(_, _)
Join(parts, sep) ==
  IF parts = <<>> THEN <<>>
  ELSE IF Len(parts) = 1 THEN parts[1]
  ELSE parts[1] \o sep \o Join(Tail(parts), sep)

\* The own keys of an object, one after the other.  (The code writes them in
\* insertion order; the order of the members is not part of a JSON value.)
RECURSIVE KeySeq(_)
KeySeq(keys) ==
  IF keys = {} THEN <<>>
  ELSE LET k == CHOOSE x \in keys : TRUE IN <<k>> \o KeySeq(keys \ {k})

\* The text of a value that has one: NaN and an undefined array element become
\* null, an undefined member is left out
RECURSIVE Stringify(_, _, _)
Stringify(v, space, depth) ==
  CASE v.t \in {"null", "NaN", "undefined"} -> <<"null">>
    [] v.t = "boolean" -> IF v.b THEN <<"true">> ELSE <<"false">>
    [] v.t = "number" -> Dec(v.n)
    [] v.t = "string" -> Quote(v.s)
    [] v.t = "array" ->
         IF v.es = <<>> THEN <<"[", "]">>
         ELSE <<"[">> \o NewLine(space, depth + 1)
              \o Join([i \in DOMAIN v.es |-> Stringify(v.es[i], space, depth + 1)],
                      <<",">> \o NewLine(space, depth + 1))
              \o NewLine(space, depth) \o <<"]">>
    [] v.t = "object" ->
         LET keys == KeySeq({k \in DOMAIN v.f : v.f[k].t # "undefined"})
         IN IF keys = <<>> THEN <<"{", "}">>
            ELSE <<"{">> \o NewLine(space, depth + 1)
                 \o Join([i \in DOMAIN keys |->
                           Quote(<<keys[i]>>) \o <<":">>
                           \o (IF space = 0 THEN <<>> ELSE <<" ">>)
                           \o Stringify(v.f[keys[i]], space, depth + 1)],
                         <<",">> \o NewLine(space, depth + 1))
                 \o NewLine(space, depth) \o <<"}">>

\* JSON.stringify(value, null, space): undefined has no JSON text
JSONstringify(v, space) ==
  IF v.t = "undefined" THEN Undefined ELSE JStr(Stringify(v, space, 0))

\* JSON.parse: white space between the tokens is skipped
RECURSIVE SkipWhite(_)
SkipWhite(ts) == IF ts # <<>> /\ Head(ts) \in {" ", "\n"} THEN SkipWhite(Tail(ts)) ELSE ts

ParseFail == [ok |-> FALSE]
Parsed(v, rest) == [ok |-> TRUE, v |-> v, rest |-> rest]

\* the characters of a string literal, after its opening quote
RECURSIVE ParseChars(_, _)
ParseChars(ts, acc) ==
  IF ts = <<>> \/ Head(ts) = "\n" THEN ParseFail
  ELSE IF Head(ts) = "\"" THEN Parsed(JStr(acc), Tail(ts))
  ELSE IF Head(ts) = "\\"
  THEN IF Len(ts) < 2 THEN ParseFail
       ELSE ParseChars(Tail(Tail(ts)), Append(acc, IF ts[2] = "n" THEN "\n" ELSE ts[2]))
  ELSE ParseChars(Tail(ts), Append(acc, Head(ts)))

ParseNumber(ts) ==
  LET neg == Head(ts) = "-"
      d == DigitPrefix(IF neg THEN Tail(ts) ELSE ts, 0, 0)
      used == d[2] + (IF neg THEN 1 ELSE 0)
  IN IF d[2] = 0 THEN ParseFail
     ELSE Parsed(JNum(IF neg THEN 0 - d[1] ELSE d[1]), SubSeq(ts, used + 1, Len(ts)))

EmptyObject == [k \in {} |-> JNull]
WithMember(f, k, v) == [x \in DOMAIN f \cup {k} |-> IF x = k THEN v ELSE f[x]]

RECURSIVE ParseValue(_), ParseElements(_, _), ParseMembers(_, _)
ParseValue(text) ==
  LET ts == SkipWhite(text)
  IN IF ts = <<>> THEN ParseFail
     ELSE CASE Head(ts) = "null" -> Parsed(JNull, Tail(ts))
            [] Head(ts) = "true" -> Parsed(JBool(TRUE), Tail(ts))
            [] Head(ts) = "false" -> Parsed(JBool(FALSE), Tail(ts))
            [] Head(ts) = "\"" -> ParseChars(Tail(ts), <<>>)
            [] Head(ts) \in Digits \cup {"-"} -> ParseNumber(ts)
            [] Head(ts) = "[" ->
                 LET r == SkipWhite(Tail(ts))
                 IN IF r # <<>> /\ Head(r) = "]" THEN Parsed(JArr(<<>>), Tail(r))
                    ELSE ParseElements(r, <<>>)
            [] Head(ts) = "{" ->
                 LET r == SkipWhite(Tail(ts))
                 IN IF r # <<>> /\ Head(r) = "}" THEN Parsed(JObj(EmptyObject), Tail(r))
                    ELSE ParseMembers(r, EmptyObject)
            [] OTHER -> ParseFail

\* the elements of an array, after its opening bracket
ParseElements(ts, acc) ==
  LET e == ParseValue(ts)
      r == IF e.ok THEN SkipWhite(e.rest) ELSE <<>>
  IN IF r = <<>> THEN ParseFail
     ELSE IF Head(r) = "," THEN ParseElements(Tail(r), Append(acc, e.v))
     ELSE IF Head(r) = "]" THEN Parsed(JArr(Append(acc, e.v)), Tail(r))
     ELSE ParseFail

\* the members of an object, after its opening brace; a key is one token
ParseMembers(ts, f) ==
  LET k == IF ts # <<>> /\ Head(ts) = "\"" THEN ParseChars(Tail(ts), <<>>) ELSE ParseFail
      c == IF k.ok /\ Len(k.v.s) = 1 THEN SkipWhite(k.rest) ELSE <<>>
      e == IF c # <<>> /\ Head(c) = ":" THEN ParseValue(Tail(c)) ELSE ParseFail
      r == IF e.ok THEN SkipWhite(e.rest) ELSE <<>>
  IN IF r = <<>> THEN ParseFail
     ELSE IF Head(r) = ","
     THEN ParseMembers(SkipWhite(Tail(r)), WithMember(f, k.v.s[1], e.v))
     ELSE IF Head(r) = "}" THEN Parsed(JObj(WithMember(f, k.v.s[1], e.v)), Tail(r))
     ELSE ParseFail

JSONparse(text) ==
  LET r == ParseValue(text)
  IN IF r.ok /\ SkipWhite(r.rest) = <<>> THEN Returned(r.v)
     ELSE Thrown(SyntaxError(<<"Unexpected token in JSON">>))

\* ------------------------------------------------------------------------
\* Backend client adapter
\* ------------------------------------------------------------------------
PLACEHOLDER_HOST == <<"http://localhost:8080">>

\* replace(/\/$/, '') : one trailing slash is removed
StripTrailingSlash(s) ==
  IF s # <<>> /\ s[Len(s)] = "/" THEN SubSeq(s, 1, Len(s) - 1) ELSE s

\* constructor: credentials.connectHost?.replace(/\/$/, '') || placeholder
BaseUrl(credentials) ==
  LET stripped == IF credentials.connectHost.some
                  THEN StripTrailingSlash(credentials.connectHost.v)
                  ELSE <<>>
      host == IF stripped # <<>> THEN stripped ELSE PLACEHOLDER_HOST
  IN host \o <<"/v1">>

createOnePasswordClientShared(credentials, objId) ==
  [id |-> 1, credentials |-> credentials, baseUrl |-> BaseUrl(credentials)]

createOnePasswordClient(credentials, objId) ==
  [id |-> objId, credentials |-> credentials, baseUrl |-> BaseUrl(credentials)]

ENV_TOKEN == <<"tA">>

getAuthHeadersFromEnv(client) ==
  IF ~(client.credentials.connectToken.some /\ client.credentials.connectToken.v # <<>>)
  THEN Thrown(AuthenticationError(
         <<"No Connect token provided. Include X-1Password-Connect-Token header.">>))
  ELSE Returned([Authorization |-> <<"Bearer ">> \o ENV_TOKEN,
                 ContentType |-> <<"application/json">>])

getAuthHeadersLax(client) ==
  Returned([Authorization |-> <<"Bearer ">>
                              \o (IF client.credentials.connectToken.some
                                  THEN client.credentials.connectToken.v
                                  ELSE <<"undefined">>),
            ContentType |-> <<"application/json">>])

getAuthHeaders(client) ==
  IF ~(client.credentials.connectToken.some /\ client.credentials.connectToken.v # <<>>)
  THEN Thrown(AuthenticationError(
         <<"No Connect token provided. Include X-1Password-Connect-Token header.">>))
  ELSE Returned([Authorization |-> <<"Bearer ">> \o client.credentials.connectToken.v,
                 ContentType |-> <<"application/json">>])

\* options of a request: method, an optional Content-Type override, an optional body
Options(method, contentType, body) ==
  [method |-> method, contentType |-> contentType, body |-> body]
GET == Options("GET", None, None)

FetchArgsTokenInUrl(client, endpoint, options) ==
  LET auth == getAuthHeaders(client)
  IN IF auth.throw THEN auth
     ELSE Returned(
       [clientId |-> client.id,
        url |-> client.baseUrl \o endpoint \o <<"?token=">> \o client.credentials.connectToken.v,
        method |-> options.method,
        Authorization |-> auth.value.Authorization,
        ContentType |-> IF options.contentType.some THEN options.contentType.v
                        ELSE auth.value.ContentType,
        body |-> options.body])

FetchArgsDefaultsWin(client, endpoint, options) ==
  LET auth == getAuthHeaders(client)
  IN IF auth.throw THEN auth
     ELSE Returned(
       [clientId |-> client.id,
        url |-> client.baseUrl \o endpoint,
        method |-> options.method,
        Authorization |-> auth.value.Authorization,
        ContentType |-> auth.value.ContentType,
        body |-> options.body])

\* The arguments of the outbound fetch(url, {...options, headers}) of request and
\* requestRaw; getAuthHeaders runs while they are built, so its failure is
\* raised before anything is sent.
FetchArgs(client, endpoint, options) ==
  LET auth == getAuthHeaders(client)
  IN IF auth.throw THEN auth
     ELSE Returned(
       [clientId |-> client.id,
        url |-> client.baseUrl \o endpoint,
        method |-> options.method,
        Authorization |-> auth.value.Authorization,
        ContentType |-> IF options.contentType.some THEN options.contentType.v
                        ELSE auth.value.ContentType,
        body |-> options.body])

\* A backend response: status, the Retry-After header, and the body text: the
\* JSON text of a value, or a text that is not JSON
Unparseable == <<"<", "html", ">">>
Json(v) == Stringify(v, 0, 0)

ResponseOk(response) == response.status >= 200 /\ response.status <= 299

ApiErrorLiteral(status) == <<"API error: ">> \o Dec(status)

\* request<T>: what the JSON helper makes of the backend's response
requestNoCatch(endpoint, response) ==
  IF response.status = 429
  THEN Thrown(RateLimitError(<<"Rate limit exceeded">>,
         IF response.retryAfter.some /\ response.retryAfter.v # <<>>
         THEN parseInt(response.retryAfter.v) ELSE Number(60)))
  ELSE IF response.status = 401
  THEN Thrown(AuthenticationError(<<"Authentication failed. Check your Connect token.">>))
  ELSE IF response.status = 403
  THEN Thrown(AuthorizationError(
         <<"Authorization failed. Check your service account permissions.">>))
  ELSE IF response.status = 404
  THEN Thrown(NotFoundError("Resource", endpoint))
  ELSE IF ~ResponseOk(response)
  THEN LET parsed == JSONparse(response.body)
       IN IF parsed.throw THEN parsed
          ELSE IF ~HasProps(parsed.value)
          THEN Thrown(TypeError(<<"Cannot read properties of null (reading 'message')">>))
          ELSE LET m == GetProp(parsed.value, "message")
                   e == GetProp(parsed.value, "error")
               IN Thrown(OnePasswordApiError(
                    IF Truthy(m) THEN String(m)
                    ELSE IF Truthy(e) THEN String(e)
                    ELSE ApiErrorLiteral(response.status),
                    response.status))
  ELSE IF response.status = 204 THEN Returned(Undefined)
  ELSE JSONparse(response.body)

request(endpoint, response) ==
  IF response.status = 429
  THEN Thrown(RateLimitError(<<"Rate limit exceeded">>,
         IF response.retryAfter.some /\ response.retryAfter.v # <<>>
         THEN parseInt(response.retryAfter.v) ELSE Number(60)))
  ELSE IF response.status = 401
  THEN Thrown(AuthenticationError(<<"Authentication failed. Check your Connect token.">>))
  ELSE IF response.status = 403
  THEN Thrown(AuthorizationError(
         <<"Authorization failed. Check your service account permissions.">>))
  ELSE IF response.status = 404
  THEN Thrown(NotFoundError("Resource", endpoint))
  ELSE IF ~ResponseOk(response)
  THEN LET parsed == JSONparse(response.body)
           \* try { errorJson = JSON.parse(..); message = errorJson.message || ... }
           \* catch {} : a parse failure and a property read on null both leave
           \* the default message
           message ==
             IF parsed.throw \/ ~HasProps(parsed.value)
             THEN ApiErrorLiteral(response.status)
             ELSE LET m == GetProp(parsed.value, "message")
                      e == GetProp(parsed.value, "error")
                  IN IF Truthy(m) THEN String(m)
                     ELSE IF Truthy(e) THEN String(e)
                     ELSE ApiErrorLiteral(response.status)
       IN Thrown(OnePasswordApiError(message, response.status))
  ELSE IF response.status = 204 THEN Returned(Undefined)
  ELSE JSONparse(response.body)

\* requestRaw: the binary helper of getFileContent
requestRaw(endpoint, response) ==
  IF ~ResponseOk(response)
  THEN IF response.status = 401
       THEN Thrown(AuthenticationError(<<"Authentication failed. Check your Connect token.">>))
       ELSE IF response.status = 403
       THEN Thrown(AuthorizationError(
              <<"Authorization failed. Check your service account permissions.">>))
       ELSE IF response.status = 404
       THEN Thrown(NotFoundError("File", endpoint))
       ELSE Thrown(OnePasswordApiError(ApiErrorLiteral(response.status), response.status))
  ELSE Returned([t |-> "bytes", raw |-> response.body])

\* heartbeat: its own fetch and its own status check
heartbeat(response) ==
  IF ~ResponseOk(response)
  THEN Thrown(OnePasswordApiError(<<"Heartbeat failed: ">> \o Dec(response.status),
                                  response.status))
  ELSE Returned(JStr(response.body))

\* encodeURIComponent on the characters the identifiers use: '/' is escaped
encodeURIComponent(id) == [i \in DOMAIN id |-> IF id[i] = "/" THEN "%2F" ELSE id[i]]

WithVaultUnlessGiven(item, vaultId) ==
  [k \in DOMAIN item \cup {"vault"} |->
     IF k \in DOMAIN item THEN item[k] ELSE JObj([id |-> JStr(vaultId)])]

\* {...item, vault: {id: vaultId}} and {...item, id: itemId, vault: {id: vaultId}}
WithVault(item, vaultId) ==
  [k \in DOMAIN item \cup {"vault"} |->
     IF k = "vault" THEN JObj([id |-> JStr(vaultId)]) ELSE item[k]]
WithIds(item, itemId, vaultId) ==
  [k \in DOMAIN item \cup {"id", "vault"} |->
     IF k = "vault" THEN JObj([id |-> JStr(vaultId)])
     ELSE IF k = "id" THEN JStr(itemId) ELSE item[k]]

Methods == {"getHealth", "heartbeat", "testConnection", "listVaults", "getVault",
            "listItems", "getItem", "createItem", "updateItem", "patchItem",
            "deleteItem", "listFiles", "getFile", "getFileContent", "listActivity"}

VaultPath(a) == <<"/vaults/">> \o encodeURIComponent(a.vaultId)
ItemPath(a) == VaultPath(a) \o <<"/items/">> \o encodeURIComponent(a.itemId)
FilePath(a) == ItemPath(a) \o <<"/files/">> \o encodeURIComponent(a.fileId)
FilterQuery(a) == IF a.filter.some /\ a.filter.v # <<>>
                  THEN <<"?filter=">> \o encodeURIComponent(a.filter.v) ELSE <<>>
InlineQuery(a) == IF a.inlineContent.some
                  THEN <<"?inline_content=", IF a.inlineContent.v THEN "true" ELSE "false">>
                  ELSE <<>>
ActivityQuery(a) ==
  LET l == IF a.limit.some /\ a.limit.v # 0 THEN <<"limit=">> \o Dec(a.limit.v) ELSE <<>>
      o == IF a.offset.some /\ a.offset.v # 0 THEN <<"offset=">> \o Dec(a.offset.v) ELSE <<>>
  IN IF l = <<>> /\ o = <<>> THEN <<>>
     ELSE <<"?">> \o l \o (IF l # <<>> /\ o # <<>> THEN <<"&">> ELSE <<>>) \o o

\* The endpoint each client method asks for
Endpoint(method, a) ==
  CASE method \in {"getHealth", "testConnection"} -> <<"/health">>
    [] method = "heartbeat" -> <<"/heartbeat">>
    [] method = "listVaults" -> <<"/vaults">> \o FilterQuery(a)
    [] method = "getVault" -> VaultPath(a)
    [] method = "listItems" -> VaultPath(a) \o <<"/items">> \o FilterQuery(a)
    [] method = "createItem" -> VaultPath(a) \o <<"/items">>
    [] method \in {"getItem", "updateItem", "patchItem", "deleteItem"} -> ItemPath(a)
    [] method = "listFiles" -> ItemPath(a) \o <<"/files">> \o InlineQuery(a)
    [] method = "getFile" -> FilePath(a) \o InlineQuery(a)
    [] method = "getFileContent" -> FilePath(a) \o <<"/content">>
    [] method = "listActivity" -> <<"/activity">> \o ActivityQuery(a)

\* The RequestInit each client method passes
RequestOptions(method, a) ==
  CASE method = "createItem" ->
         Options("POST", None, Some(JSONstringify(JObj(WithVault(a.item, a.vaultId)), 0)))
    [] method = "updateItem" ->
         Options("PUT", None,
                 Some(JSONstringify(JObj(WithIds(a.item, a.itemId, a.vaultId)), 0)))
    [] method = "patchItem" ->
         Options("PATCH", Some(<<"application/json-patch+json">>),
                 Some(JSONstringify(JArr(a.operations), 0)))
    [] method = "deleteItem" -> Options("DELETE", None, None)
    [] OTHER -> GET

\* The fetch a client method issues, or the failure raised before it
MethodFetch(client, method, a) ==
  FetchArgs(client, Endpoint(method, a), RequestOptions(method, a))

\* The HTTP helper behind each client method, applied to the backend's response
HelperOf(method) ==
  CASE method = "heartbeat" -> "heartbeat"
    [] method = "getFileContent" -> "requestRaw"
    [] OTHER -> "request"

MethodHelper(method, a, response) ==
  CASE method = "heartbeat" -> heartbeat(response)
    [] method = "getFileContent" -> requestRaw(Endpoint(method, a), response)
    [] OTHER -> request(Endpoint(method, a), response)

\* items.length
LengthOf(v) ==
  CASE v.t = "array" -> JNum(Len(v.es))
    [] v.t = "string" -> JNum(Len(v.s))
    [] OTHER -> Undefined

listActivityHasMore(helper) ==
  IF helper.throw THEN helper
  ELSE IF ~HasProps(helper.value)
  THEN Thrown(TypeError(<<"Cannot read properties of undefined (reading 'length')">>))
  ELSE Returned(JObj([items |-> helper.value,
                      count |-> LengthOf(helper.value),
                      hasMore |-> JBool(LengthOf(helper.value) # JNum(0))]))

listActivity(helper) ==
  IF helper.throw THEN helper
  ELSE IF ~HasProps(helper.value)
  THEN Thrown(TypeError(<<"Cannot read properties of undefined (reading 'length')">>))
  ELSE Returned(JObj([items |-> helper.value,
                      count |-> LengthOf(helper.value),
                      hasMore |-> JBool(FALSE)]))

testConnectionRethrow(helper) ==
  IF helper.throw THEN helper
  ELSE IF ~HasProps(helper.value)
  THEN Thrown(TypeError(<<"Cannot read properties of ", helper.value.t,
                         " (reading 'name')">>))
  ELSE Returned(JObj(
         [connected |-> JBool(TRUE),
          message |-> JStr(<<"Successfully connected to 1Password Connect server (">>
                           \o String(GetProp(helper.value, "name")) \o <<" v">>
                           \o String(GetProp(helper.value, "version")) \o <<")">>)]))

\* testConnection: one try block around getHealth and the success message
testConnection(helper) ==
  IF helper.throw
  THEN Returned(JObj(
         [connected |-> JBool(FALSE),
          message |-> JStr(IF IsError(helper.error) THEN helper.error.message
                           ELSE <<"Connection failed">>)]))
  ELSE IF ~HasProps(helper.value)
  THEN Returned(JObj(
         [connected |-> JBool(FALSE),
          message |-> JStr(<<"Cannot read properties of ", helper.value.t,
                             " (reading 'name')">>)]))
  ELSE Returned(JObj(
         [connected |-> JBool(TRUE),
          message |-> JStr(<<"Successfully connected to 1Password Connect server (">>
                           \o String(GetProp(helper.value, "name")) \o <<" v">>
                           \o String(GetProp(helper.value, "version")) \o <<")">>)]))

\* What a client method gives its caller, from what its HTTP helper gave
MethodResult(method, helper) ==
  CASE method = "listActivity" -> listActivity(helper)
    [] method = "testConnection" -> testConnection(helper)
    [] method = "deleteItem" -> IF helper.throw THEN helper ELSE Returned(Undefined)
    [] OTHER -> helper

\* ------------------------------------------------------------------------
\* Response formatter
\* ------------------------------------------------------------------------
\* A tool response: one text block and the optional isError flag
ToolResponse(text, isError) ==
  [content |-> <<[type |-> "text", text |-> text]>>, isError |-> isError]

\* a number field of an error, as a JavaScript value
JsNumber(x) == IF x.nan THEN JNaN ELSE JNum(x.n)

\* error.stack: the header line and the frames
Stack(error) ==
  error.name \o <<": ">> \o error.message \o <<"\n", "    at <anonymous>">>

formatErrorForLoggingPlain(error) ==
  IF IsError(error)
  THEN JObj([name |-> JStr(error.name), message |-> JStr(error.message),
             stack |-> JStr(Stack(error))])
  ELSE JObj([error |-> JStr(String(error.value))])

\* The members every taxonomy failure has, then the spread of the members of
\* RateLimitError and of ValidationError
formatErrorForLogging(error) ==
  IF IsApiError(error)
  THEN JObj([k \in {"name", "message", "code", "statusCode", "retryable"}
                   \cup (IF error.class = "RateLimitError" THEN {"retryAfterSeconds"} ELSE {})
                   \cup (IF error.class = "ValidationError" THEN {"details"} ELSE {}) |->
               CASE k = "name" -> JStr(error.name)
                 [] k = "message" -> JStr(error.message)
                 [] k = "code" -> JStr(<<error.code>>)
                 [] k = "statusCode" -> JNum(error.statusCode)
                 [] k = "retryable" -> JBool(error.retryable)
                 [] k = "retryAfterSeconds" -> JsNumber(error.retryAfterSeconds)
                 [] k = "details" -> error.details])
  ELSE IF IsError(error)
  THEN JObj([name |-> JStr(error.name), message |-> JStr(error.message),
             stack |-> JStr(Stack(error))])
  ELSE JObj([error |-> JStr(String(error.value))])

formatError(error) ==
  LET message ==
        IF IsApiError(error)
        THEN <<"Error: ">> \o error.message
             \o (IF error.retryable THEN <<" (retryable)">> ELSE <<>>)
        ELSE IF IsError(error) THEN <<"Error: ">> \o error.message
        ELSE <<"Error: ">> \o String(error.value)
  IN ToolResponse(JSONstringify(JObj([error |-> JStr(message),
                                      details |-> formatErrorForLogging(error)]), 2),
                  Some(TRUE))

isPaginatedResponse(data) ==
  data.t = "object" /\ "items" \in DOMAIN data.f /\ data.f["items"].t = "array"

\* A row template reads properties of each element: a null or undefined element throws
RowThrows(es) == \E i \in DOMAIN es : ~HasProps(es[i])

\* item.tags?.join(', ') : a tags value that is not an array has no join
TagsThrow(es) ==
  \E i \in DOMAIN es :
    HasProps(es[i]) /\ HasProps(GetProp(es[i], "tags")) /\ GetProp(es[i], "tags").t # "array"

NullRead == TypeError(<<"Cannot read properties of null">>)

Table(layout, es) == Returned([md |-> layout, rows |-> es])

formatVaultsTable(es) == IF RowThrows(es) THEN Thrown(NullRead) ELSE Table("vaults", es)
formatItemsTable(es) ==
  IF RowThrows(es) \/ TagsThrow(es) THEN Thrown(NullRead) ELSE Table("items", es)
formatFilesTable(es) == IF RowThrows(es) THEN Thrown(NullRead) ELSE Table("files", es)
formatActivityTable(es) == IF RowThrows(es) THEN Thrown(NullRead) ELSE Table("activity", es)

\* Object.keys(items[0]) throws on null; record[k] throws on a null row when
\* there is a key to read
formatGenericTable(es) ==
  IF es = <<>> THEN Returned([md |-> "none", rows |-> es])
  ELSE IF ~HasProps(es[1]) THEN Thrown(NullRead)
  ELSE IF es[1].t = "object" /\ DOMAIN es[1].f # {} /\ RowThrows(es) THEN Thrown(NullRead)
  ELSE Table("generic", es)

\* A size in bytes is written k * 1024 + r with r below 1024, so that three
\* gigabytes stay within the checker's integers
Bytes(k, r) == [k |-> k, r |-> r]

\* (bytes / (1024 * unit)).toFixed(1): the nearest number of tenths, a tie
\* going up, as digits, a point and one digit
toFixed1(bytes, unit) ==
  LET tenths == (20 * bytes.k + ((20 * bytes.r) \div 1024) + unit) \div (2 * unit)
  IN Dec(tenths \div 10) \o <<".", DigitChar(tenths % 10)>>

formatFileSizeInclusive(bytes) ==
  IF bytes.k < 1 \/ bytes = Bytes(1, 0) THEN Dec(bytes.k * 1024 + bytes.r) \o <<" B">>
  ELSE IF bytes.k < 1024 \/ bytes = Bytes(1024, 0)
  THEN toFixed1(bytes, 1) \o <<" KB">>
  ELSE IF bytes.k < 1024 * 1024 \/ bytes = Bytes(1024 * 1024, 0)
  THEN toFixed1(bytes, 1024) \o <<" MB">>
  ELSE toFixed1(bytes, 1024 * 1024) \o <<" GB">>

formatFileSize(bytes) ==
  IF bytes.k < 1 THEN Dec(bytes.r) \o <<" B">>
  ELSE IF bytes.k < 1024 THEN toFixed1(bytes, 1) \o <<" KB">>
  ELSE IF bytes.k < 1024 * 1024 THEN toFixed1(bytes, 1024) \o <<" MB">>
  ELSE toFixed1(bytes, 1024 * 1024) \o <<" GB">>

\* `${value || '-'}` : the text of the value, or a dash when it is falsy
OrDash(v) == IF Truthy(v) THEN String(v) ELSE <<"-">>

\* lines.join('\n')
Lines(lines) == Join(lines, <<"\n">>)

\* The dependencies the loop walks: the elements of an array, the characters
\* of a string; any other value has no length above zero
formatHealthAsMarkdown(health) ==
  IF ~HasProps(health) THEN Thrown(NullRead)
  ELSE LET deps == GetProp(health, "dependencies")
           rows == CASE deps.t = "array" -> deps.es
                     [] deps.t = "string" -> [i \in DOMAIN deps.s |-> JStr(<<deps.s[i]>>)]
                     [] OTHER -> <<>>
           table == IF rows = <<>> THEN <<>>
                    ELSE <<<<"### Dependencies">>, <<"| Service | Status | Message |">>,
                           <<"|---|---|---|">>>>
                         \o [i \in DOMAIN rows |->
                               <<"| ">> \o OrDash(GetProp(rows[i], "service"))
                               \o <<" | ">> \o OrDash(GetProp(rows[i], "status"))
                               \o <<" | ">> \o OrDash(GetProp(rows[i], "message"))
                               \o <<" |">>]
       IN IF RowThrows(rows) THEN Thrown(NullRead)
          ELSE Returned([md |-> "health", rows |-> <<health>>,
                         text |-> Lines(<<<<"## Server Health">>, <<>>,
                                          <<"**Name:** ">> \o OrDash(GetProp(health, "name")),
                                          <<"**Version:** ">>
                                            \o OrDash(GetProp(health, "version")),
                                          <<>>>> \o table)])

TableFor(entityType, es) ==
  CASE entityType = "vaults" -> formatVaultsTable(es)
    [] entityType = "items" -> formatItemsTable(es)
    [] entityType = "files" -> formatFilesTable(es)
    [] entityType = "activity" -> formatActivityTable(es)
    [] OTHER -> formatGenericTable(es)

formatPaginatedAsMarkdown(data, entityType) ==
  IF data.f["items"].es = <<>>
  THEN Returned([md |-> "paginated-empty", rows |-> <<>>])
  ELSE LET t == TableFor(entityType, data.f["items"].es)
       IN IF t.throw THEN t
          ELSE Returned([md |-> "paginated", rows |-> t.value.rows])

formatArrayAsMarkdown(es, entityType) ==
  IF entityType = "health"
  THEN formatHealthAsMarkdown(IF es = <<>> THEN Undefined ELSE es[1])
  ELSE TableFor(entityType, es)

\* str.charAt(0).toUpperCase() + str.slice(1), for the entity types in use
capitalize(str) ==
  CASE str = "vault" -> "Vault" [] str = "item" -> "Item" [] str = "file" -> "File"
    [] str = "activity" -> "Activity" [] str = "health" -> "Health"

\* A space before every capital, the first character in upper case, trimmed:
\* computed for the member names of the entities
formatKey(key) ==
  CASE key = "requestId" -> "Request Id"
    [] key = "content_path" -> "Content_path"
    [] key = "hasMore" -> "Has More" [] key = "count" -> "Count"
    [] key = "id" -> "Id" [] key = "name" -> "Name" [] key = "version" -> "Version"
    [] key = "dependencies" -> "Dependencies" [] key = "service" -> "Service"
    [] key = "status" -> "Status" [] key = "message" -> "Message" [] key = "error" -> "Error"
    [] key = "items" -> "Items" [] key = "title" -> "Title" [] key = "category" -> "Category"
    [] key = "vault" -> "Vault" [] key = "tags" -> "Tags" [] key = "favorite" -> "Favorite"
    [] key = "size" -> "Size" [] key = "timestamp" -> "Timestamp" [] key = "action" -> "Action"
    [] key = "result" -> "Result" [] key = "actor" -> "Actor" [] key = "resource" -> "Resource"

\* A heading, then one entry per member that is not null or undefined: a
\* fenced JSON block for an object or an array, the value's text otherwise.
\* (The token "'''" stands for the fence of three backquotes.)
formatObjectAsMarkdown(data, entityType) ==
  LET singular == CASE entityType = "vaults" -> "vault" [] entityType = "items" -> "item"
                    [] entityType = "files" -> "file" [] OTHER -> entityType
      keys == KeySeq({k \in DOMAIN data.f : data.f[k].t \notin {"null", "undefined"}})
      entry(k) ==
        IF data.f[k].t \in {"object", "array"}
        THEN Lines(<<<<"**", formatKey(k), ":**">>, <<"'''", "json">>,
                     JSONstringify(data.f[k], 2).s, <<"'''">>>>)
        ELSE <<"**", formatKey(k), ":** ">> \o String(data.f[k])
  IN Returned([md |-> "object", rows |-> <<data>>,
               text |-> Lines(<<<<"## ", capitalize(singular)>>, <<>>>>
                              \o [i \in DOMAIN keys |-> entry(keys[i])])])

formatAsMarkdown(data, entityType) ==
  IF isPaginatedResponse(data) THEN formatPaginatedAsMarkdown(data, entityType)
  ELSE IF data.t = "array" THEN formatArrayAsMarkdown(data.es, entityType)
  ELSE IF data.t = "object" THEN formatObjectAsMarkdown(data, entityType)
  ELSE Returned([md |-> "string", rows |-> <<data>>])

formatResponse(data, format, entityType) ==
  IF format = "markdown"
  THEN LET md == formatAsMarkdown(data, entityType)
       IN IF md.throw THEN md ELSE Returned(ToolResponse(md.value, None))
  ELSE Returned(ToolResponse(JSONstringify(data, 2), None))

\* ------------------------------------------------------------------------
\* Tool registry
\* ------------------------------------------------------------------------
Tool(method, entityType) == [method |-> method, entityType |-> entityType]

\* server.tool(name, ...) : the client method each handler calls and, for the
\* handlers that render through formatResponse, the entity type they pass
ToolTable ==
  [list_vaults |-> Tool("listVaults", "vaults"),
   get_vault |-> Tool("getVault", "vault"),
   list_items |-> Tool("listItems", "items"),
   get_item |-> Tool("getItem", "item"),
   create_item |-> Tool("createItem", "-"),
   update_item |-> Tool("updateItem", "-"),
   patch_item |-> Tool("patchItem", "-"),
   delete_item |-> Tool("deleteItem", "-"),
   list_files |-> Tool("listFiles", "files"),
   get_file |-> Tool("getFile", "file"),
   get_file_content |-> Tool("getFileContent", "-"),
   list_activity |-> Tool("listActivity", "activity"),
   get_health |-> Tool("getHealth", "health"),
   heartbeat |-> Tool("heartbeat", "-"),
   test_connection |-> Tool("testConnection", "-")]

ToolNames == DOMAIN ToolTable

\* The name each tool is registered under: the first argument of server.tool
RegisteredName ==
  [list_vaults |-> "1password_list_vaults", get_vault |-> "1password_get_vault",
   list_items |-> "1password_list_items", get_item |-> "1password_get_item",
   create_item |-> "1password_create_item", update_item |-> "1password_update_item",
   patch_item |-> "1password_patch_item", delete_item |-> "1password_delete_item",
   list_files |-> "1password_list_files", get_file |-> "1password_get_file",
   get_file_content |-> "1password_get_file_content",
   list_activity |-> "1password_list_activity", get_health |-> "1password_get_health",
   heartbeat |-> "1password_heartbeat", test_connection |-> "1password_test_connection"]
Formatted(tool) == ToolTable[tool].entityType # "-"

Success(message, key, value) ==
  JObj([k \in {"success", "message", key} |->
          IF k = "success" THEN JBool(TRUE)
          ELSE IF k = "message" THEN JStr(message) ELSE value])

\* btoa over the bytes of the file: the output is over the base64 alphabet,
\* which has no quote, backslash or line feed
btoa(bytes) ==
  [i \in DOMAIN bytes |->
     CASE bytes[i] = "\"" -> "Ig" [] bytes[i] = "\\" -> "XA" [] bytes[i] = "\n" -> "Cg"
       [] OTHER -> bytes[i]]

\* z.enum([...]) over the 21 item categories: a string that is one of them
itemCategorySchema(v) ==
  v.t = "string" /\ Len(v.s) = 1
  /\ v.s[1] \in {"LOGIN", "SECURE_NOTE", "CREDIT_CARD", "IDENTITY", "PASSWORD", "DOCUMENT",
                  "API_CREDENTIAL", "DATABASE", "BANK_ACCOUNT", "CUSTOM", "DRIVER_LICENSE",
                  "EMAIL_ACCOUNT", "MEMBERSHIP", "OUTDOOR_LICENSE", "PASSPORT",
                  "REWARD_PROGRAM", "SERVER", "SOCIAL_SECURITY_NUMBER", "SOFTWARE_LICENSE",
                  "SSH_KEY", "WIRELESS_ROUTER"}

\* schema.optional(): the member is undefined (or not there) or of the type
Optional(v, k, type) == GetProp(v, k).t \in {"undefined", type}

\* z.object({id, type?, purpose?, label?, value?, section?})
itemFieldSchema(v) ==
  /\ v.t = "object"
  /\ GetProp(v, "id").t = "string"
  /\ Optional(v, "type", "string") /\ Optional(v, "purpose", "string")
  /\ GetProp(v, "type").t = "string" =>
       /\ Len(v.f["type"].s) = 1
       /\ v.f["type"].s[1] \in {"STRING", "CONCEALED", "EMAIL", "URL", "OTP", "DATE",
                                "MONTH_YEAR", "PHONE", "MENU", "FILE", "ADDRESS",
                                "CREDIT_CARD_TYPE", "CREDIT_CARD_NUMBER", "REFERENCE",
                                "SSHKEY"}
  /\ GetProp(v, "purpose").t = "string" =>
       /\ Len(v.f["purpose"].s) = 1
       /\ v.f["purpose"].s[1] \in {"USERNAME", "PASSWORD", "NOTES"}
  /\ Optional(v, "label", "string") /\ Optional(v, "value", "string")
  /\ Optional(v, "section", "object")
  /\ GetProp(v, "section").t = "object" => GetProp(v.f["section"], "id").t = "string"

\* z.object({op, path, value?, from?})
jsonPatchOpSchema(v) ==
  /\ v.t = "object"
  /\ GetProp(v, "op").t = "string" /\ Len(v.f["op"].s) = 1
  /\ v.f["op"].s[1] \in {"add", "remove", "replace", "move", "copy", "test"}
  /\ GetProp(v, "path").t = "string"
  /\ Optional(v, "from", "string")

InputSchemaFreeForm(tool, a) ==
  CASE tool \in {"create_item", "update_item"} -> a.item.category.t = "string"
    [] tool = "patch_item" ->
         \A i \in DOMAIN a.operations : GetProp(a.operations[i], "op").t = "string"
    [] OTHER -> TRUE

\* The input schema given to server.tool for the tools that take an item or
\* a list of operations.  The runtime parses the arguments against it and
\* calls the handler only when they pass.  (The arguments of the other tools
\* are strings and numbers, drawn here from their schemas.)
InputSchema(tool, a) ==
  CASE tool \in {"create_item", "update_item"} ->
         /\ a.item.title.t = "string"
         /\ itemCategorySchema(a.item.category)
         /\ a.item.fields.t \in {"undefined", "array"}
         /\ a.item.fields.t = "array" =>
              \A i \in DOMAIN a.item.fields.es : itemFieldSchema(a.item.fields.es[i])
         /\ a.item.sections.t \in {"undefined", "array"}
         /\ a.item.sections.t = "array" =>
              \A i \in DOMAIN a.item.sections.es :
                /\ a.item.sections.es[i].t = "object"
                /\ GetProp(a.item.sections.es[i], "id").t = "string"
                /\ Optional(a.item.sections.es[i], "label", "string")
         /\ a.item.urls.t \in {"undefined", "array"}
         /\ a.item.urls.t = "array" =>
              \A i \in DOMAIN a.item.urls.es :
                /\ a.item.urls.es[i].t = "object"
                /\ GetProp(a.item.urls.es[i], "href").t = "string"
                /\ Optional(a.item.urls.es[i], "label", "string")
                /\ Optional(a.item.urls.es[i], "primary", "boolean")
         /\ a.item.tags.t \in {"undefined", "array"}
         /\ a.item.tags.t = "array" =>
              \A i \in DOMAIN a.item.tags.es : a.item.tags.es[i].t = "string"
         /\ a.item.favorite.t \in {"undefined", "boolean"}
    [] tool = "patch_item" ->
         \A i \in DOMAIN a.operations : jsonPatchOpSchema(a.operations[i])
    [] OTHER -> TRUE

\* The body of a handler's try block, given what the client method returned
ToolSuccess(tool, format, a, value) ==
  CASE Formatted(tool) -> formatResponse(value, format, ToolTable[tool].entityType)
    [] tool = "create_item" ->
         Returned(ToolResponse(JSONstringify(Success(<<"Item created">>, "item", value), 2), None))
    [] tool = "update_item" ->
         Returned(ToolResponse(JSONstringify(Success(<<"Item updated">>, "item", value), 2), None))
    [] tool = "patch_item" ->
         Returned(ToolResponse(JSONstringify(Success(<<"Item patched">>, "item", value), 2), None))
    [] tool = "delete_item" ->
         Returned(ToolResponse(JSONstringify(
           JObj([success |-> JBool(TRUE),
                 message |-> JStr(<<"Item ">> \o a.itemId \o <<" deleted from vault ">>
                                  \o a.vaultId)]), 2), None))
    [] tool = "get_file_content" ->
         Returned(ToolResponse(JSONstringify(
           JObj([success |-> JBool(TRUE), encoding |-> JStr(<<"base64">>),
                 content |-> JStr(btoa(value.raw))]), 2), None))
    [] tool = "heartbeat" ->
         Returned(ToolResponse(JSONstringify(
           Success(<<"Server is alive">>, "response", value), 2), None))
    [] tool = "test_connection" -> Returned(ToolResponse(JSONstringify(value, 2), None))

\* The handler's catch block
ToolCatch(tool, error) ==
  IF tool = "test_connection"
  THEN ToolResponse(JStr(<<"Connection failed: ">>
                         \o (IF IsError(error) THEN error.message ELSE <<"Unknown error">>)),
                    Some(TRUE))
  ELSE formatError(error)

\* A handler: try { value = await client.method(..); return render } catch { .. }
ToolHandlerNoRenderCatch(tool, format, a, result) ==
  IF result.throw THEN Returned(ToolCatch(tool, result.error))
  ELSE ToolSuccess(tool, format, a, result.value)

ToolHandler(tool, format, a, result) ==
  IF result.throw THEN Returned(ToolCatch(tool, result.error))
  ELSE LET r == ToolSuccess(tool, format, a, result.value)
       IN IF r.throw THEN Returned(ToolCatch(tool, r.error)) ELSE r

createStatelessServer(credentials, objId) ==
  [client |-> createOnePasswordClient(credentials, objId), tools |-> ToolNames]

\* ------------------------------------------------------------------------
\* Inputs
\* ------------------------------------------------------------------------
\* All strings over an alphabet, up to a length
RECURSIVE StringsOver(_, _)
StringsOver(alphabet, n) ==
  IF n = 0 THEN {<<>>}
  ELSE LET shorter == StringsOver(alphabet, n - 1)
       IN shorter \cup {Append(s, ch) : s \in shorter, ch \in alphabet}

Headers(token, host) == [token |-> token, host |-> host]

\* Credential headers of inbound calls: two tenants, and every way a header
\* can be missing, empty or a bare slash
CredentialHeaders ==
  {Headers(Some(<<"tA">>), Some(<<"a">>)),
   Headers(Some(<<"tB">>), Some(<<"b", "/">>)),
   Headers(Some(<<"tA">>), Some(<<"/">>)),
   Headers(None, Some(<<"a">>)),
   Headers(Some(<<>>), Some(<<"b", "/">>)),
   Headers(Some(<<"tB">>), None),
   Headers(Some(<<"tA">>), Some(<<>>)),
   Headers(None, None),
   Headers(Some(<<>>), Some(<<>>))}

Routes == {<<"/health", "GET">>, <<"/mcp", "POST">>, <<"/mcp", "GET">>,
           <<"/sse", "GET">>, <<"/", "GET">>}

InboundRequests ==
  {[path |-> r[1], method |-> r[2], token |-> h.token, host |-> h.host] :
     r \in {<<"/mcp", "POST">>}, h \in CredentialHeaders}
  \cup
  {[path |-> r[1], method |-> r[2], token |-> h.token, host |-> h.host] :
     r \in Routes \ {<<"/mcp", "POST">>},
     h \in {Headers(Some(<<"tA">>), Some(<<"a">>)), Headers(None, None)}}

\* Arguments of a tool call
DefaultItem ==
  [title |-> JStr(<<"Test">>), category |-> JStr(<<"LOGIN">>), fields |-> Undefined,
   sections |-> Undefined, urls |-> Undefined, tags |-> Undefined, favorite |-> Undefined]

ToolArgs ==
  [vaultId |-> <<"v", "1">>, itemId |-> <<"i", "/", "1">>, fileId |-> <<"f", "1">>,
   filter |-> None, inlineContent |-> None, limit |-> None, offset |-> None,
   item |-> DefaultItem,
   operations |-> <<JObj([op |-> JStr(<<"replace">>), path |-> JStr(<<"/title">>),
                          value |-> JStr(<<"New">>)])>>]

\* The item a create/update handler hands to the client
HandlerItem(tool, a) ==
  IF tool = "create_item" THEN WithVault(a.item, a.vaultId)
  ELSE IF tool = "update_item" THEN WithIds(a.item, a.itemId, a.vaultId)
  ELSE a.item

HandlerArgs(tool, a) == [a EXCEPT !.item = HandlerItem(tool, a)]

\* limit and offset of a list-activity call
ActivityArgs ==
  {[ToolArgs EXCEPT !.limit = l, !.offset = o] :
     l \in {None, Some(1)}, o \in {None, Some(0), Some(2)}}

\* Items given to the create and update tools: within the schema (with and
\* without fields) and outside it (a category, a field type or a field
\* purpose that is not of its enumeration)
Field(type, purpose) ==
  JObj([id |-> JStr(<<"username">>), type |-> type, purpose |-> purpose,
        value |-> JStr(<<"bob">>)])

ItemInputs ==
  {DefaultItem,
   [DefaultItem EXCEPT !.category = JStr(<<"UNKNOWN">>)],
   [DefaultItem EXCEPT !.category = JStr(<<"login">>)],
   [DefaultItem EXCEPT !.fields = JArr(<<Field(JStr(<<"STRING">>), JStr(<<"USERNAME">>))>>)],
   [DefaultItem EXCEPT !.fields = JArr(<<Field(Undefined, Undefined)>>)],
   [DefaultItem EXCEPT !.fields = JArr(<<Field(JStr(<<"TEXT">>), Undefined)>>)],
   [DefaultItem EXCEPT !.fields = JArr(<<Field(JStr(<<"CONCEALED">>), JStr(<<"PIN">>))>>)],
   [DefaultItem EXCEPT !.fields = JArr(<<Field(JStr(<<"STRING">>), JStr(<<"NOTES">>)),
                                         Field(JStr(<<"string">>), Undefined)>>)]}

\* Operation lists given to the patch tool, with an op of the enumeration
\* and with one outside it
OperationInputs ==
  {ToolArgs.operations,
   <<JObj([op |-> JStr(<<"test">>), path |-> JStr(<<"/title">>), value |-> JStr(<<"Test">>)]),
     JObj([op |-> JStr(<<"move">>), path |-> JStr(<<"/a">>), from |-> JStr(<<"/b">>)])>>,
   <<JObj([op |-> JStr(<<"delete">>), path |-> JStr(<<"/title">>)])>>,
   <<JObj([op |-> JStr(<<"replace">>), path |-> JStr(<<"/title">>), value |-> JStr(<<"New">>)]),
     JObj([op |-> JStr(<<"merge">>), path |-> JStr(<<"/title">>)])>>}

ToolArgsOf(tool) ==
  CASE tool = "list_activity" -> ActivityArgs
    [] tool \in {"create_item", "update_item"} ->
         {[ToolArgs EXCEPT !.item = i] : i \in ItemInputs}
    [] tool = "patch_item" -> {[ToolArgs EXCEPT !.operations = o] : o \in OperationInputs}
    [] OTHER -> {ToolArgs}

\* A call of a client method: the tool whose handler makes it ("-" when the
\* caller is not a tool handler), the method and the arguments it is given
Call(tool, method, format, a) ==
  [tool |-> tool, method |-> method, format |-> format, args |-> a]

\* format is an argument of the handlers that render through formatResponse
ToolCalls ==
  UNION {{Call(t, ToolTable[t].method, f, HandlerArgs(t, a)) :
            f \in (IF Formatted(t) THEN {"json", "markdown"} ELSE {"json"}),
            a \in ToolArgsOf(t)} : t \in ToolNames}

\* One tool per outbound fetch site of the client
ConcurrentToolCalls ==
  {tc \in ToolCalls : tc.format = "json" /\
     tc.tool \in {"list_vaults", "get_file_content", "heartbeat"}}

\* Backend responses
Response(status, retryAfter, body) ==
  [status |-> status, retryAfter |-> retryAfter, body |-> body]

HealthObj ==
  JObj([name |-> JStr(<<"connect">>), version |-> JStr(<<"1.2">>),
        dependencies |-> JArr(<<JObj([service |-> JStr(<<"sync">>),
                                      status |-> JStr(<<"ACTIVE">>)])>>)])

FieldValues == {Undefined, JNull, JStr(<<>>), JStr(<<"boom">>), JNum(7)}

ErrorObjects ==
  {JObj([k \in {x \in {"message", "error"} :
                  (x = "message" /\ m.t # "undefined") \/ (x = "error" /\ e.t # "undefined")}
           |-> IF k = "message" THEN m ELSE e]) :
     m \in FieldValues, e \in {Undefined, JStr(<<>>), JStr(<<"bad">>)}}

Bodies ==
  {Unparseable, <<>>, Json(JNull), Json(JNum(7)), Json(JStr(<<"text">>)),
   Json(JArr(<<>>)), Json(JArr(<<JNull>>)), Json(JArr(<<HealthObj>>)), Json(HealthObj),
   Json(JArr(<<HealthObj, JObj([requestId |-> JStr(<<"r", "2">>)])>>)),
   Json(JObj([items |-> JArr(<<JNull>>)]))}
  \cup {Json(o) : o \in ErrorObjects}

Statuses == {200, 204, 302, 400, 401, 403, 404, 429, 500}

RetryAfterValues ==
  {None} \cup {Some(s) : s \in StringsOver({"1", "5", "x", "-", " "}, MaxStrLen)}

Responses ==
  {Response(st, None, b) : st \in Statuses, b \in Bodies}
  \cup {Response(429, ra, Unparseable) : ra \in RetryAfterValues}

ConcurrentResponses == {Response(200, None, Json(JArr(<<HealthObj>>)))}

\* {...item, ...extra}
Extend(item, extra) ==
  [k \in DOMAIN item \cup DOMAIN extra |-> IF k \in DOMAIN extra THEN extra[k] ELSE item[k]]

\* Item payloads given to createItem and updateItem: what the handlers build,
\* and payloads with no vault or id, or with ones that differ from the path's
Payloads ==
  {DefaultItem,
   HandlerItem("create_item", ToolArgs),
   HandlerItem("update_item", ToolArgs),
   Extend(DefaultItem, [vault |-> JObj([id |-> JStr(<<"other">>)])]),
   Extend(DefaultItem, [id |-> JStr(<<"zz">>), vault |-> JStr(<<"other">>),
                        tags |-> JArr(<<JStr(<<"t">>)>>), favorite |-> JBool(TRUE)]),
   Extend(DefaultItem, [id |-> JNull, vault |-> JNull])}

PatchOp(op, path, value) == JObj([op |-> JStr(<<op>>), path |-> JStr(<<path>>), value |-> value])

\* Operation lists given to patchItem
PatchLists ==
  {<<>>,
   ToolArgs.operations,
   <<PatchOp("replace", "/title", JStr(<<"New">>)), PatchOp("remove", "/fields/0", Undefined)>>,
   <<PatchOp("remove", "/fields/0", Undefined), PatchOp("replace", "/title", JStr(<<"New">>))>>,
   <<PatchOp("add", "/fields/-", JObj([id |-> JStr(<<"n", "\"", "1">>), value |-> JNull]))>>}

ClientArgs(method) ==
  CASE method \in {"createItem", "updateItem"} -> {[ToolArgs EXCEPT !.item = p] : p \in Payloads}
    [] method = "patchItem" -> {[ToolArgs EXCEPT !.operations = o] : o \in PatchLists}
    [] method = "listActivity" -> ActivityArgs
    [] OTHER -> {ToolArgs}

ClientCalls == UNION {{Call("-", m, "json", a) : a \in ClientArgs(m)} : m \in Methods}

\* Payloads of the entity kinds the formatter is given
Texts == {<<>>, <<"Personal">>, <<"a", "\"", "b">>, <<"c", "\\", "d">>, <<"line", "\n", "two">>}

VaultObjs ==
  {JObj([id |-> JStr(<<"v", "1">>), name |-> JStr(n), items |-> JNum(i)]) :
     n \in Texts, i \in {0, 12}}

ItemObjs ==
  {JObj([id |-> JStr(<<"i", "1">>), title |-> JStr(n), category |-> JStr(<<"LOGIN">>),
         vault |-> JObj([id |-> JStr(<<"v", "1">>)]), tags |-> tg, favorite |-> JBool(fav)]) :
     n \in {<<"Test">>, <<"a", "\"", "b">>},
     tg \in {JArr(<<>>), JArr(<<JStr(<<"t">>), JStr(<<",">>)>>)},
     fav \in BOOLEAN}

FileObjs ==
  {JObj([id |-> JStr(<<"f", "1">>), name |-> JStr(n), size |-> JNum(sz),
         content_path |-> JStr(<<"/v1/vaults/v1/items/i1/files/f1/content">>)]) :
     n \in {<<"key.pem">>, <<"c", "\\", "d">>}, sz \in {0, 2048}}

ActivityObjs ==
  {JObj([requestId |-> JStr(<<"r", "1">>), timestamp |-> JStr(<<"2024-01-01T00:00:00Z">>),
         action |-> JStr(<<"READ">>), result |-> JStr(r),
         actor |-> JObj([id |-> JStr(<<"a", "1">>), account |-> JNull]),
         resource |-> JObj([type |-> JStr(<<"ITEM">>),
                            vault |-> JObj([id |-> JStr(<<"v", "1">>)])])]) :
     r \in {<<"SUCCESS">>, <<"DENY">>}}

HealthObjs ==
  {HealthObj,
   JObj([name |-> JStr(<<"connect">>), version |-> JStr(<<"1.2">>), dependencies |-> JArr(<<>>)]),
   JObj([name |-> JStr(<<"connect">>), version |-> JStr(<<"1.2">>),
         dependencies |-> JArr(<<JObj([service |-> JStr(<<"sync">>), status |-> JStr(<<"ACTIVE">>),
                                       message |-> JStr(<<"ok">>)]),
                                 JObj([service |-> JStr(<<"sqlite">>),
                                       status |-> JStr(<<"ACTIVE">>)])>>)])}

\* The lists of at most two elements of a set
ListsOf(S) == {<<>>} \cup {<<x>> : x \in S} \cup {<<x, y>> : x \in S, y \in S}

\* what listActivity makes of the backend's records
ActivityPage(es) == JObj([items |-> JArr(es), count |-> JNum(Len(es)), hasMore |-> JBool(FALSE)])

\* The payload and the entity type each formatting handler passes
Payload(data, entityType) == [data |-> data, entityType |-> entityType]

EntityPayloads ==
  {Payload(JArr(es), "vaults") : es \in ListsOf({v \in VaultObjs : v.f["items"] = JNum(12)})}
  \cup {Payload(v, "vault") : v \in VaultObjs}
  \cup {Payload(JArr(es), "items") : es \in {<<>>} \cup {<<x>> : x \in ItemObjs}}
  \cup {Payload(v, "item") : v \in ItemObjs}
  \cup {Payload(JArr(es), "files") : es \in {<<>>} \cup {<<x>> : x \in FileObjs}}
  \cup {Payload(v, "file") : v \in FileObjs}
  \cup {Payload(ActivityPage(es), "activity") : es \in ListsOf(ActivityObjs)}
  \cup {Payload(v, "health") : v \in HealthObjs}

FormatInputs ==
  {[data |-> p.data, format |-> f, entityType |-> p.entityType] :
     p \in EntityPayloads, f \in {"json", "markdown"}}

\* Thrown values the error renderer is given
Messages == {<<>>, <<"boom">>, <<"say ", "\"", "hi", "\"">>, <<"line", "\n", "two">>}

ErrorValues ==
  {RateLimitError(<<"Rate limit exceeded">>, r) :
     r \in {NaN, Number(60), Number(0), Number(15), Number(-1)}}
  \cup {AuthenticationError(m) : m \in Messages}
  \cup {AuthorizationError(m) : m \in Messages}
  \cup {NotFoundError(k, id) : k \in {"Resource", "File"}, id \in {<<"/vaults/v1">>, <<>>}}
  \cup {ValidationError(m, d) :
          m \in Messages,
          d \in {JObj(EmptyObject), JObj([title |-> JArr(<<JStr(<<"required">>)>>)])}}
  \cup {OnePasswordApiError(m, st) : m \in Messages, st \in {400, 500, 503}}
  \cup {PlainError(m) : m \in Messages}
  \cup {TypeError(m) : m \in Messages}
  \cup {NonError(v) : v \in {JStr(<<"boom">>), JStr(<<>>), JNum(7), JNull, Undefined,
                             JBool(FALSE), JObj([message |-> JStr(<<"boom">>)])}}

\* Messages of transport failures, and messages that resemble them
TransportMessages ==
  {<<"network">>, <<"A ", "network", " error occurred">>, <<"Network", " error">>,
   <<"The operation was aborted due to ", "timeout">>, <<"timed out">>,
   <<"read ", "ECONNRESET">>, <<"econnreset">>, <<"fetch failed">>}

\* Values isRetryableError is asked about
RetryInputs ==
  ErrorValues
  \cup {TypeError(m) : m \in TransportMessages}
  \cup {PlainError(m) : m \in TransportMessages}
  \cup {AuthenticationError(m) : m \in TransportMessages}
  \cup {OnePasswordApiError(m, 503) : m \in TransportMessages}
  \cup {RateLimitError(m, Number(60)) : m \in TransportMessages}
  \cup {NonError(v) : v \in {JStr(<<"network">>), JObj([message |-> JStr(<<"timeout">>)])}}

\* ------------------------------------------------------------------------
\* The state machine
\* ------------------------------------------------------------------------
HttpResponse(status, body) == [status |-> status, body |-> body]

UnauthorizedBodyNamedOnly(error) ==
  [error |-> "Unauthorized",
   message |-> IF IsError(error) THEN error.message ELSE <<"Invalid credentials">>,
   required_headers |-> SelectSeq(<<TOKEN_HEADER, HOST_HEADER>>,
                                  LAMBDA h : \E i \in DOMAIN error.message :
                                               error.message[i] = h)]

\* The JSON document of the 401 answer
UnauthorizedBody(error) ==
  [error |-> "Unauthorized",
   message |-> IF IsError(error) THEN error.message ELSE <<"Invalid credentials">>,
   required_headers |-> <<TOKEN_HEADER, HOST_HEADER>>]

Init ==
  /\ pc = [c \in Calls |-> "idle"]
  /\ req = [c \in Calls |-> None]
  /\ server = [c \in Calls |-> None]
  /\ call = [c \in Calls |-> None]
  /\ out = [c \in Calls |-> <<>>]
  /\ outcome = [c \in Calls |-> None]
  /\ resp = [c \in Calls |-> None]
  /\ nextObj = 1
  /\ globals = ModuleState
  /\ applied = None

\* The fetch handler if it took /mcp with any method for the MCP route
FetchAnyMethod(c, inbound) ==
  /\ pc[c] = "idle"
  /\ req' = [req EXCEPT ![c] = Some(inbound)]
  /\ IF inbound.path = "/health"
     THEN /\ resp' = [resp EXCEPT ![c] = Some(HttpResponse(200,
                        [status |-> "ok", server |-> globals.SERVER_NAME]))]
          /\ pc' = [pc EXCEPT ![c] = "done"]
          /\ UNCHANGED <<server, nextObj>>
     ELSE IF inbound.path = "/mcp"
     THEN LET credentials == parseTenantCredentials(inbound)
              valid == validateCredentials(credentials)
          IN IF valid.throw
             THEN /\ resp' = [resp EXCEPT ![c] =
                                Some(HttpResponse(401, UnauthorizedBody(valid.error)))]
                  /\ pc' = [pc EXCEPT ![c] = "done"]
                  /\ UNCHANGED <<server, nextObj>>
             ELSE /\ server' = [server EXCEPT ![c] =
                                  Some(createStatelessServer(credentials, nextObj))]
                  /\ nextObj' = nextObj + 1
                  /\ pc' = [pc EXCEPT ![c] = "ready"]
                  /\ UNCHANGED resp
     ELSE IF inbound.path = "/sse"
     THEN /\ resp' = [resp EXCEPT ![c] = Some(HttpResponse(501,
                        [text |-> "SSE endpoint requires Durable Objects."]))]
          /\ pc' = [pc EXCEPT ![c] = "done"]
          /\ UNCHANGED <<server, nextObj>>
     ELSE /\ resp' = [resp EXCEPT ![c] = Some(HttpResponse(200,
                        [name |-> globals.SERVER_NAME, version |-> globals.SERVER_VERSION]))]
          /\ pc' = [pc EXCEPT ![c] = "done"]
          /\ UNCHANGED <<server, nextObj>>
  /\ UNCHANGED <<call, out, outcome, globals, applied>>

\* The worker's fetch handler, up to its first suspension point
Fetch(c, inbound) ==
  /\ pc[c] = "idle"
  /\ req' = [req EXCEPT ![c] = Some(inbound)]
  /\ IF inbound.path = "/health"
     THEN /\ resp' = [resp EXCEPT ![c] = Some(HttpResponse(200,
                        [status |-> "ok", server |-> globals.SERVER_NAME]))]
          /\ pc' = [pc EXCEPT ![c] = "done"]
          /\ UNCHANGED <<server, nextObj>>
     ELSE IF inbound.path = "/mcp" /\ inbound.method = "POST"
     THEN LET credentials == parseTenantCredentials(inbound)
              valid == validateCredentials(credentials)
          IN IF valid.throw
             THEN /\ resp' = [resp EXCEPT ![c] =
                                Some(HttpResponse(401, UnauthorizedBody(valid.error)))]
                  /\ pc' = [pc EXCEPT ![c] = "done"]
                  /\ UNCHANGED <<server, nextObj>>
             ELSE /\ server' = [server EXCEPT ![c] =
                                  Some(createStatelessServer(credentials, nextObj))]
                  /\ nextObj' = nextObj + 1
                  /\ pc' = [pc EXCEPT ![c] = "ready"]
                  /\ UNCHANGED resp
     ELSE IF inbound.path = "/sse"
     THEN /\ resp' = [resp EXCEPT ![c] = Some(HttpResponse(501,
                        [text |-> "SSE endpoint requires Durable Objects."]))]
          /\ pc' = [pc EXCEPT ![c] = "done"]
          /\ UNCHANGED <<server, nextObj>>
     ELSE /\ resp' = [resp EXCEPT ![c] = Some(HttpResponse(200,
                        [name |-> globals.SERVER_NAME, version |-> globals.SERVER_VERSION]))]
          /\ pc' = [pc EXCEPT ![c] = "done"]
          /\ UNCHANGED <<server, nextObj>>
  /\ UNCHANGED <<call, out, outcome, globals, applied>>

SettleRetry(c, tc, response, helper) ==
  IF helper.throw /\ IsApiError(helper.error) /\ helper.error.retryable /\ Len(out[c]) = 1
  THEN /\ out' = [out EXCEPT ![c] = Append(out[c], out[c][1])]
       /\ pc' = [pc EXCEPT ![c] = "inflight"]
       /\ UNCHANGED <<outcome, resp>>
  ELSE LET result == MethodResult(tc.method, helper)
           handled == ToolHandler(tc.tool, tc.format, tc.args, result)
       IN /\ outcome' = [outcome EXCEPT ![c] =
                           Some([response |-> response, helper |-> helper,
                                 method |-> result])]
          /\ resp' = IF tc.tool = "-" THEN resp
                     ELSE [resp EXCEPT ![c] = Some(HttpResponse(200, handled))]
          /\ pc' = [pc EXCEPT ![c] = "done"]
          /\ out' = out

\* The client method settles with what its HTTP helper gave it, and its
\* caller runs to its return: a tool handler renders the outcome into the
\* tool response; nothing is sent again
Settle(c, tc, response, helper) ==
  LET result == MethodResult(tc.method, helper)
      handled == ToolHandler(tc.tool, tc.format, tc.args, result)
  IN /\ outcome' = [outcome EXCEPT ![c] =
                      Some([response |-> response, helper |-> helper, method |-> result])]
     /\ resp' = IF tc.tool = "-" THEN resp
                ELSE [resp EXCEPT ![c] = Some(HttpResponse(200, handled))]
     /\ pc' = [pc EXCEPT ![c] = "done"]
     /\ out' = out

\* A client method runs up to its outbound fetch
Dispatch(c, tc) ==
  /\ pc[c] = "ready"
  /\ call' = [call EXCEPT ![c] = Some(tc)]
  /\ LET sent == MethodFetch(server[c].v.client, tc.method, tc.args)
     IN IF sent.throw
        THEN Settle(c, tc, None, sent)
        ELSE /\ out' = [out EXCEPT ![c] = Append(out[c], sent.value)]
             /\ pc' = [pc EXCEPT ![c] = "inflight"]
             /\ UNCHANGED <<outcome, resp>>
  /\ UNCHANGED <<req, server, nextObj, globals, applied>>

\* The runtime dispatches a registered tool; its handler calls the client method
\* The runtime takes a call of a registered tool: arguments that do not pass
\* the tool's input schema are answered by the runtime and the handler is not
\* called; otherwise the handler runs and calls the client method
ToolCall(c, tc) ==
  /\ pc[c] = "ready"
  /\ tc.tool \in server[c].v.tools
  /\ IF InputSchema(tc.tool, tc.args)
     THEN Dispatch(c, tc)
     ELSE /\ call' = [call EXCEPT ![c] = Some(tc)]
          /\ pc' = [pc EXCEPT ![c] = "rejected"]
          /\ resp' = [resp EXCEPT ![c] =
                        Some(HttpResponse(200, Returned(ToolResponse(
                               JStr(<<"Invalid arguments for tool ", tc.tool>>),
                               Some(TRUE)))))]
          /\ UNCHANGED <<req, server, out, outcome, nextObj, globals, applied>>

\* A method of the OnePasswordClient interface is called with any arguments
ClientCall(c, cc) ==
  /\ cc.tool = "-"
  /\ Dispatch(c, cc)

\* The backend answers the outbound request; the caller runs to its return
BackendResponds(c, response) ==
  /\ pc[c] = "inflight"
  /\ Settle(c, call[c].v, Some(response),
            MethodHelper(call[c].v.method, call[c].v.args, response))
  /\ UNCHANGED <<req, server, call, nextObj, globals, applied>>

\* The outbound fetch rejects (a network failure)
FetchRejects(c) ==
  /\ pc[c] = "inflight"
  /\ Settle(c, call[c].v, None, Thrown(TypeError(<<"fetch failed">>)))
  /\ UNCHANGED <<req, server, call, nextObj, globals, applied>>

Next ==
  \E c \in Calls :
    \/ \E inbound \in InboundRequests : Fetch(c, inbound)
    \/ \E tc \in ConcurrentToolCalls : ToolCall(c, tc)
    \/ \E response \in ConcurrentResponses : BackendResponds(c, response)
    \/ FetchRejects(c)

Spec == Init /\ [][Next]_vars

\* The adapter on its own: one client built from any credentials, any tool
\* and any backend response
AdapterCredentials ==
  {parseTenantCredentials(h) : h \in CredentialHeaders}

InitAdapter ==
  /\ \E credentials \in AdapterCredentials :
       server = [c \in Calls |-> IF c = 1 THEN Some(createStatelessServer(credentials, 1))
                                 ELSE None]
  /\ pc = [c \in Calls |-> IF c = 1 THEN "ready" ELSE "idle"]
  /\ req = [c \in Calls |-> None]
  /\ call = [c \in Calls |-> None]
  /\ out = [c \in Calls |-> <<>>]
  /\ outcome = [c \in Calls |-> None]
  /\ resp = [c \in Calls |-> None]
  /\ nextObj = 2
  /\ globals = ModuleState
  /\ applied = None

NextAdapter ==
  \/ \E tc \in ToolCalls : ToolCall(1, tc)
  \/ \E response \in Responses : BackendResponds(1, response)
  \/ FetchRejects(1)

SpecAdapter == InitAdapter /\ [][NextAdapter]_vars

\* The awaited fetch of call c completes and the call leaves its await.  The
\* steps of the adapter that do this are those of BackendResponds, whatever the
\* response, and of FetchRejects: each is enabled exactly while the call awaits
FetchCompletes(c) ==
  /\ pc[c] = "inflight"
  /\ pc' = [pc EXCEPT ![c] = "done"]

\* The adapter when every backend HTTP call eventually completes
SpecAdapterLive == SpecAdapter /\ WF_pc(FetchCompletes(1))

\* Credentials a client can be built from: those the entry point parses, and
\* a token that is the empty string
ClientCredentials ==
  AdapterCredentials
  \cup {[connectToken |-> Some(<<>>), connectHost |-> Some(<<"a">>)]}

\* The client interface on its own: one client built by the factory from any
\* credentials, any method called with any arguments, any backend response
InitClient ==
  /\ \E credentials \in ClientCredentials :
       server = [c \in Calls |->
                   IF c = 1 THEN Some([client |-> createOnePasswordClient(credentials, 1),
                                       tools |-> {}])
                   ELSE None]
  /\ pc = [c \in Calls |-> IF c = 1 THEN "ready" ELSE "idle"]
  /\ req = [c \in Calls |-> None]
  /\ call = [c \in Calls |-> None]
  /\ out = [c \in Calls |-> <<>>]
  /\ outcome = [c \in Calls |-> None]
  /\ resp = [c \in Calls |-> None]
  /\ nextObj = 2
  /\ globals = ModuleState
  /\ applied = None

NextClient ==
  \/ \E cc \in ClientCalls : ClientCall(1, cc)
  \/ \E response \in Responses : BackendResponds(1, response)
  \/ FetchRejects(1)

SpecClient == InitClient /\ [][NextClient]_vars

\* The formatter on its own: formatResponse and formatError applied to any
\* payload and to any thrown value
ApplyFormatResponse(x) ==
  /\ applied = None
  /\ applied' = Some([fn |-> "formatResponse", arg |-> x,
                      result |-> formatResponse(x.data, x.format, x.entityType)])
  /\ UNCHANGED <<pc, req, server, call, out, outcome, resp, nextObj, globals>>

ApplyFormatError(error) ==
  /\ applied = None
  /\ applied' = Some([fn |-> "formatError", arg |-> error,
                      result |-> Returned(formatError(error))])
  /\ UNCHANGED <<pc, req, server, call, out, outcome, resp, nextObj, globals>>

\* File sizes: around each threshold, the sizes of the examples, and sizes
\* whose tenths lie on and beside a rounding tie
FileSizes ==
  {Bytes(k, r) : k \in {0, 1, 2, 5, 1023, 1024, 1025, 5120, 1048575, 1048576, 3145728},
                 r \in {0, 1, 51, 52, 256, 512, 1023}}

\* Values of an environment variable: not set, empty, an integer, text, an
\* integer followed by text, a negative integer, an integer after a space, a
\* decimal fraction, text followed by a digit
EnvValues ==
  {None, Some(<<>>), Some(<<"2", "0">>), Some(<<"x">>), Some(<<"1", "2", "p", "x">>),
   Some(<<"-", "5">>), Some(<<" ", "4", "2">>), Some(<<"3", ".", "9">>),
   Some(<<"a", "b", "c", "7">>)}

Envs == [{"CHARACTER_LIMIT", "DEFAULT_PAGE_SIZE", "MAX_PAGE_SIZE"} -> EnvValues]

\* A helper applied to an argument
Apply(fn, x, result) ==
  /\ applied = None
  /\ applied' = Some([fn |-> fn, arg |-> x, result |-> result])
  /\ UNCHANGED <<pc, req, server, call, out, outcome, resp, nextObj, globals>>

NextFormat ==
  \/ \E x \in FormatInputs : ApplyFormatResponse(x)
  \/ \E error \in ErrorValues : ApplyFormatError(error)
  \/ \E error \in RetryInputs : Apply("isRetryableError", error, isRetryableError(error))
  \/ \E bytes \in FileSizes : Apply("formatFileSize", bytes, formatFileSize(bytes))
  \/ \E env \in Envs : Apply("getCharacterLimit", env, getCharacterLimit(env))
  \/ \E env \in Envs : Apply("getDefaultPageSize", env, getDefaultPageSize(env))
  \/ \E env \in Envs : Apply("getMaxPageSize", env, getMaxPageSize(env))

SpecFormat == Init /\ [][NextFormat]_vars

\* ------------------------------------------------------------------------
\* Properties
\* ------------------------------------------------------------------------
McpPost(c) == req[c].some /\ req[c].v.path = "/mcp" /\ req[c].v.method = "POST"

\* A credential header that is not there, or is there with nothing in it
HeaderMissing(h) == ~h.some \/ h.v = <<>>

Accepted(c) == McpPost(c) /\ ~HeaderMissing(req[c].v.token) /\ ~HeaderMissing(req[c].v.host)
Rejected(c) == McpPost(c) /\ (HeaderMissing(req[c].v.token) \/ HeaderMissing(req[c].v.host))

IsPrefix(p, s) == Len(p) <= Len(s) /\ SubSeq(s, 1, Len(p)) = p

\* The host a call's own header names: the header without its trailing slash
OwnHost(c) == StripTrailingSlash(req[c].v.host.v)

C2_MissingCredentialRejected ==
  \A c \in Calls :
    Rejected(c) =>
      /\ pc[c] = "done"
      /\ resp[c].some /\ resp[c].v.status = 401
      /\ server[c] = None
      /\ call[c] = None
      /\ out[c] = <<>>
      /\ outcome[c] = None

C2_Witness ==
  \E c \in Calls :
    /\ McpPost(c) /\ ~req[c].v.token.some /\ req[c].v.host.some
    /\ resp[c].some /\ resp[c].v.status = 401

\* C3: the 401 answer lists both required header names whichever credential
\* is missing.
C3_UnauthorizedListsBoth ==
  \A c \in Calls :
    Rejected(c) =>
      /\ resp[c].some /\ resp[c].v.status = 401
      /\ resp[c].v.body.required_headers = <<TOKEN_HEADER, HOST_HEADER>>

\* Only the host is missing, and the answer is there
C3_Witness ==
  \E c \in Calls :
    /\ Rejected(c) /\ ~HeaderMissing(req[c].v.token) /\ HeaderMissing(req[c].v.host)
    /\ resp[c].some /\ resp[c].v.status = 401

Names(message, header) == \E i \in DOMAIN message : message[i] = header

\* C4 as claimed: the validation failure names every missing credential and no
\* present one.
C4_NamesEveryMissing ==
  \A c \in Calls :
    (Rejected(c) /\ resp[c].some) =>
      /\ Names(resp[c].v.body.message, TOKEN_HEADER) <=> HeaderMissing(req[c].v.token)
      /\ Names(resp[c].v.body.message, HOST_HEADER) <=> HeaderMissing(req[c].v.host)

\* C4 as the code has it: the validation failure names the first missing
\* credential only, the token before the host, and never a present one.
C4_NamesFirstMissing ==
  \A c \in Calls :
    Rejected(c) =>
      /\ resp[c].some
      /\ Names(resp[c].v.body.message, TOKEN_HEADER) <=> HeaderMissing(req[c].v.token)
      /\ Names(resp[c].v.body.message, HOST_HEADER) <=>
           (~HeaderMissing(req[c].v.token) /\ HeaderMissing(req[c].v.host))

\* Both credentials missing, and the failure names the token alone
C4_Witness ==
  \E c \in Calls :
    /\ Rejected(c) /\ HeaderMissing(req[c].v.token) /\ HeaderMissing(req[c].v.host)
    /\ resp[c].some
    /\ Names(resp[c].v.body.message, TOKEN_HEADER)
    /\ ~Names(resp[c].v.body.message, HOST_HEADER)

Built == {c \in Calls : server[c].some}

\* C5: an accepted call has one client of its own, built from its own
\* credentials; one client is allocated per accepted call and none is shared by
\* two calls; every outbound request goes through the call's own client; the
\* module-level state stays what it was at start-up and holds no credential.
C5_ClientPerCall ==
  /\ \A c \in Calls :
       /\ Accepted(c) <=> (req[c].some /\ server[c].some)
       /\ server[c].some =>
            server[c].v.client.credentials = parseTenantCredentials(req[c].v)
       /\ \A i \in DOMAIN out[c] : out[c][i].clientId = server[c].v.client.id
  /\ \A c1, c2 \in Built : c1 # c2 => server[c1].v.client.id # server[c2].v.client.id
  /\ nextObj = 1 + Cardinality(Built)
  /\ globals = ModuleState

\* Two accepted calls, each with its client, one of them already answered
C5_Witness ==
  \E c1, c2 \in Calls :
    /\ c1 # c2 /\ Accepted(c1) /\ Accepted(c2)
    /\ server[c1].some /\ server[c2].some
    /\ pc[c1] = "done" /\ out[c2] # <<>>

\* ------------------------------------------------------------------------
\* Properties of the adapter and of the tool handlers
\* ------------------------------------------------------------------------
\* Calls whose backend request has been answered with a response
Answered == {c \in Calls : outcome[c].some /\ outcome[c].v.response.some}

TheResponse(c) == outcome[c].v.response.v
TheHelper(c) == outcome[c].v.helper
TheResult(c) == outcome[c].v.method
TheMethod(c) == call[c].v.method

TypedStatuses == {401, 403, 404, 429}

ExpectedClass(status) ==
  CASE status = 401 -> "AuthenticationError"
    [] status = 403 -> "AuthorizationError"
    [] status = 404 -> "NotFoundError"
    [] status = 429 -> "RateLimitError"

\* C6 as claimed: whatever the operation (JSON request, raw download,
\* heartbeat), a 401, 403, 404 or 429 response raises the failure typed for
\* that status, retryable for 429 only, the 404 one carrying the path.
C6_TypedFailureEveryOperation ==
  \A c \in Answered :
    TheResponse(c).status \in TypedStatuses =>
      /\ TheHelper(c).throw
      /\ TheHelper(c).error.class = ExpectedClass(TheResponse(c).status)
      /\ TheHelper(c).error.statusCode = TheResponse(c).status
      /\ TheHelper(c).error.retryable = (TheResponse(c).status = 429)
      /\ TheResponse(c).status = 404 =>
           \E kind \in {"Resource", "File"} :
             TheHelper(c).error.message =
               <<kind, " with ID '">>
               \o Endpoint(TheMethod(c), call[c].v.args)
               \o <<"' not found">>

\* C7 as claimed: the RateLimited failure of a 429 carries the Retry-After
\* header as an integer, and 60 when the header is missing or does not parse
\* to a number.
C7_RetryAfterOrSixty ==
  \A c \in Answered :
    (TheResponse(c).status = 429 /\ TheHelper(c).throw
       /\ TheHelper(c).error.class = "RateLimitError") =>
      TheHelper(c).error.retryAfterSeconds =
        IF ~TheResponse(c).retryAfter.some \/ parseInt(TheResponse(c).retryAfter.v) = NaN
        THEN Number(60)
        ELSE parseInt(TheResponse(c).retryAfter.v)

\* The message the claim expects of a generic failure: the body's message
\* member, else its error member, else the literal
BodyValue(body) == IF JSONparse(body).throw THEN Undefined ELSE JSONparse(body).value

Member(body, k) ==
  LET v == BodyValue(body)
  IN IF v.t = "object" /\ k \in DOMAIN v.f /\ Truthy(v.f[k])
     THEN Some(String(v.f[k])) ELSE None

ExpectedMessage(response) ==
  IF Member(response.body, "message").some THEN Member(response.body, "message").v
  ELSE IF Member(response.body, "error").some THEN Member(response.body, "error").v
  ELSE <<"API error: ">> \o Dec(response.status)

GenericFailure(c) ==
  /\ c \in Answered
  /\ HelperOf(TheMethod(c)) = "request"
  /\ ~ResponseOk(TheResponse(c))
  /\ TheResponse(c).status \notin TypedStatuses

Handled(c) == resp[c].v.body

\* A failure reached the handler: the client method raised, or rendering did
ClientFailed(c) == TheResult(c).throw
RenderFailed(c) ==
  /\ ~TheResult(c).throw
  /\ ToolSuccess(call[c].v.tool, call[c].v.format, call[c].v.args, TheResult(c).value).throw

\* C9: whatever tool ran and whatever failure reached its handler (a typed
\* failure, a rejected fetch, a body that does not decode, a failure while
\* rendering), the handler returns one text block with isError set; nothing
\* leaves a handler as a failure.
C9_HandlersRenderFailures ==
  \A c \in Calls :
    (pc[c] = "done" /\ call[c].some) =>
      /\ resp[c].some /\ outcome[c].some
      /\ ~Handled(c).throw
      /\ Len(Handled(c).value.content) = 1
      /\ Handled(c).value.content[1].type = "text"
      /\ (ClientFailed(c) \/ RenderFailed(c)) => Handled(c).value.isError = Some(TRUE)

\* A table that fails to render (a null row) and comes back as an error block
C9_Witness ==
  \E c \in Calls :
    /\ pc[c] = "done" /\ call[c].some
    /\ RenderFailed(c)
    /\ Handled(c).value.isError = Some(TRUE)

IsTestConnection(c) == call[c].some /\ outcome[c].some /\ call[c].v.tool = "test_connection"

\* C10: testConnection returns {connected, message} and never raises, for
\* every outcome of getHealth: with a failure (typed, transport, missing
\* token) connected is false and message is the failure's text; with an empty
\* payload connected is false; connected is true only after a 2xx payload.
C10_TestConnectionNeverRaises ==
  \A c \in Calls :
    IsTestConnection(c) =>
      /\ ~TheResult(c).throw
      /\ TheResult(c).value.t = "object"
      /\ DOMAIN TheResult(c).value.f = {"connected", "message"}
      /\ TheResult(c).value.f["connected"].t = "boolean"
      /\ TheResult(c).value.f["message"].t = "string"
      /\ TheHelper(c).throw =>
           /\ TheResult(c).value.f["connected"] = JBool(FALSE)
           /\ TheResult(c).value.f["message"] = JStr(TheHelper(c).error.message)
      /\ (~TheHelper(c).throw /\ ~HasProps(TheHelper(c).value)) =>
           TheResult(c).value.f["connected"] = JBool(FALSE)
      /\ TheResult(c).value.f["connected"] = JBool(TRUE) =>
           (c \in Answered /\ ResponseOk(TheResponse(c)))

\* getHealth answered 204: the empty payload is reported, not raised
C10_Witness ==
  \E c \in Calls :
    /\ IsTestConnection(c) /\ c \in Answered
    /\ TheResponse(c).status = 204
    /\ ~TheResult(c).throw
    /\ TheResult(c).value.f["connected"] = JBool(FALSE)

\* C11: the test-connection tool answers every backend outcome (a response of
\* any status and body, a rejected fetch, a missing token) with a block that
\* has no isError flag and whose text is the {connected, message} result; a
\* failure is shown as connected false with the failure's message.
C11_TestConnectionNoErrorBlock ==
  \A c \in Calls :
    (IsTestConnection(c) /\ pc[c] = "done") =>
      /\ ~TheResult(c).throw
      /\ ~Handled(c).throw
      /\ Handled(c).value.isError = None
      /\ Handled(c).value.content[1].text = JSONstringify(TheResult(c).value, 2)
      /\ LET shown == JSONparse(Handled(c).value.content[1].text.s)
         IN /\ ~shown.throw
            /\ shown.value.t = "object"
            /\ DOMAIN shown.value.f = {"connected", "message"}
            /\ TheHelper(c).throw =>
                 shown.value = JObj([connected |-> JBool(FALSE),
                                     message |-> JStr(TheHelper(c).error.message)])

\* The backend answers 401 and the block reports it without an error flag
C11_Witness ==
  \E c \in Calls :
    /\ IsTestConnection(c) /\ pc[c] = "done" /\ c \in Answered
    /\ TheResponse(c).status = 401
    /\ TheHelper(c).throw /\ TheHelper(c).error.class = "AuthenticationError"
    /\ Handled(c).value.isError = None

\* A call of a client method that has settled
IsMethod(c, m) == call[c].some /\ outcome[c].some /\ call[c].v.method = m

\* C12: a listActivity call that succeeds returns {items, count, hasMore} with
\* hasMore false and items the backend's payload; when that payload is a list
\* of records, count is its length, whatever limit and offset were asked for.
C12_ActivityPage ==
  \A c \in Calls :
    (IsMethod(c, "listActivity") /\ ~TheResult(c).throw) =>
      /\ c \in Answered /\ ResponseOk(TheResponse(c))
      /\ TheResult(c).value.t = "object"
      /\ DOMAIN TheResult(c).value.f = {"items", "count", "hasMore"}
      /\ TheResult(c).value.f["hasMore"] = JBool(FALSE)
      /\ TheResult(c).value.f["items"] = BodyValue(TheResponse(c).body)
      /\ TheResult(c).value.f["items"].t = "array" =>
           TheResult(c).value.f["count"] = JNum(Len(TheResult(c).value.f["items"].es))

\* One record asked for, two returned: count is two and hasMore is false
C12_Witness ==
  \E c \in Calls :
    /\ IsMethod(c, "listActivity") /\ ~TheResult(c).throw
    /\ call[c].v.args.limit = Some(1) /\ call[c].v.args.offset = Some(2)
    /\ TheResult(c).value.f["count"] = JNum(2)
    /\ TheResult(c).value.f["hasMore"] = JBool(FALSE)

\* The outbound request of a call and the value its body is the JSON text of
Sent(c) == out[c][1]
SentBody(c) == JSONparse(Sent(c).body.v.s)

\* an object without its undefined members
Defined(v) ==
  IF v.t = "object" THEN JObj([k \in {x \in DOMAIN v.f : v.f[x].t # "undefined"} |-> v.f[k]])
  ELSE v

\* C13: the body createItem sends has vault = {id: vaultId}, and the body
\* updateItem sends has id = itemId and vault = {id: vaultId}, whatever vault
\* or id the payload held; every other member the payload defines is sent as
\* it was given, and nothing else is.
C13_PathIdentityOverridesPayload ==
  \A c \in Calls :
    (call[c].some /\ out[c] # <<>> /\ call[c].v.method \in {"createItem", "updateItem"}) =>
      LET a == call[c].v.args
          update == call[c].v.method = "updateItem"
          injected == IF update THEN {"id", "vault"} ELSE {"vault"}
          kept == {k \in DOMAIN a.item : a.item[k].t # "undefined"} \ injected
      IN /\ Sent(c).method = (IF update THEN "PUT" ELSE "POST")
         /\ ~SentBody(c).throw
         /\ SentBody(c).value.t = "object"
         /\ DOMAIN SentBody(c).value.f = kept \cup injected
         /\ SentBody(c).value.f["vault"] = JObj([id |-> JStr(a.vaultId)])
         /\ update => SentBody(c).value.f["id"] = JStr(a.itemId)
         /\ \A k \in kept : SentBody(c).value.f[k] = a.item[k]

\* createItem is given a payload that names another vault, and sends the path's
C13_Witness ==
  \E c \in Calls :
    /\ call[c].some /\ out[c] # <<>> /\ call[c].v.method = "createItem"
    /\ call[c].v.args.item = Extend(DefaultItem, [vault |-> JObj([id |-> JStr(<<"other">>)])])
    /\ SentBody(c).value.f["vault"] = JObj([id |-> JStr(<<"v", "1">>)])

\* C14: the body patchItem sends is the JSON text of the operation list it was
\* given (the same operations in the same order with the same members), with
\* Content-Type application/json-patch+json and the bearer Authorization header.
C14_PatchForwarded ==
  \A c \in Calls :
    (call[c].some /\ out[c] # <<>> /\ call[c].v.method = "patchItem") =>
      LET ops == call[c].v.args.operations
      IN /\ Sent(c).method = "PATCH"
         /\ Sent(c).ContentType = <<"application/json-patch+json">>
         /\ Sent(c).Authorization =
              <<"Bearer ">> \o server[c].v.client.credentials.connectToken.v
         /\ ~SentBody(c).throw
         /\ SentBody(c).value = JArr([i \in DOMAIN ops |-> Defined(ops[i])])

\* Two operations, sent in the order given
C14_Witness ==
  \E c \in Calls :
    /\ call[c].some /\ out[c] # <<>> /\ call[c].v.method = "patchItem"
    /\ Len(call[c].v.args.operations) = 2
    /\ SentBody(c).value.es[1].f["op"] = JStr(<<"remove">>)
    /\ SentBody(c).value.es[2].f["op"] = JStr(<<"replace">>)
    /\ Sent(c).ContentType = <<"application/json-patch+json">>

\* C15: a tool invocation issues at most one backend request, whatever the
\* backend's answer (a retryable 429 and a rejected fetch included), and once
\* its client method has settled no request is issued for it again.
C15_NoRetry ==
  /\ [](\A c \in Calls : Len(out[c]) <= 1 /\ (outcome[c].some => pc[c] = "done"))
  /\ [][\A c \in Calls : outcome[c].some => out'[c] = out[c]]_vars

\* A 429 raised the retryable failure, and the one request is all there was
C15_Witness ==
  \E c \in Calls :
    /\ c \in Answered /\ pc[c] = "done" /\ call[c].v.tool # "-"
    /\ TheResponse(c).status = 429
    /\ TheHelper(c).throw /\ TheHelper(c).error.retryable
    /\ Len(out[c]) = 1

\* The client of a call has no token bound (none, or the empty string)
NoToken(c) ==
  /\ server[c].some
  /\ ~(server[c].v.client.credentials.connectToken.some
       /\ server[c].v.client.credentials.connectToken.v # <<>>)

IsAuthFailure(error) ==
  /\ error.class = "AuthenticationError"
  /\ error.statusCode = 401
  /\ error.retryable = FALSE

\* C16 as claimed: with no token bound, every operation of the adapter fails
\* at once with the authentication failure (401, not retryable) and sends
\* nothing.
C16_EveryOperationFails ==
  \A c \in Calls :
    (call[c].some /\ NoToken(c)) =>
      /\ out[c] = <<>> /\ pc[c] = "done" /\ outcome[c].some
      /\ TheResult(c).throw
      /\ IsAuthFailure(TheResult(c).error)

\* C16 as the code has it: with no token bound, every operation sends nothing
\* and meets the authentication failure (401, not retryable) at once; every
\* operation but testConnection fails with it, and testConnection returns it
\* as {connected: false, message}.
C16_FailsExceptTestConnection ==
  \A c \in Calls :
    (call[c].some /\ NoToken(c)) =>
      /\ out[c] = <<>> /\ pc[c] = "done" /\ outcome[c].some
      /\ TheHelper(c).throw
      /\ IsAuthFailure(TheHelper(c).error)
      /\ IF TheMethod(c) = "testConnection"
         THEN TheResult(c) = Returned(JObj([connected |-> JBool(FALSE),
                                            message |-> JStr(TheHelper(c).error.message)]))
         ELSE TheResult(c) = TheHelper(c)

\* testConnection on a client without a token: nothing sent, nothing raised
C16_Witness ==
  \E c \in Calls :
    /\ call[c].some /\ NoToken(c) /\ TheMethod(c) = "testConnection"
    /\ out[c] = <<>> /\ outcome[c].some
    /\ ~TheResult(c).throw
    /\ TheResult(c).value.f["connected"] = JBool(FALSE)

\* C17 as claimed: deleteItem completes without raising exactly when the
\* backend's status is 2xx, whatever the body.
C17_DeleteSucceedsOnEvery2xx ==
  \A c \in Calls :
    (IsMethod(c, "deleteItem") /\ c \in Answered) =>
      (ResponseOk(TheResponse(c)) <=> ~TheResult(c).throw)

\* The characters of a token occur, in a row, in a text
OccursIn(tok, text) ==
  \E i \in 1..(Len(text) - Len(tok) + 1) : SubSeq(text, i, i + Len(tok) - 1) = tok

\* A value holds the token in one of its strings
RECURSIVE Mentions(_, _)
Mentions(v, tok) ==
  CASE v.t = "string" -> OccursIn(tok, v.s)
    [] v.t = "array" -> \E i \in DOMAIN v.es : Mentions(v.es[i], tok)
    [] v.t = "object" -> \E k \in DOMAIN v.f : OccursIn(tok, <<k>>) \/ Mentions(v.f[k], tok)
    [] OTHER -> FALSE

\* A tool response holds the token in its text
BlockMentions(block, tok) ==
  \E i \in DOMAIN block.content :
    LET text == block.content[i].text
    IN IF "md" \in DOMAIN text
       THEN \E r \in DOMAIN text.rows : Mentions(text.rows[r], tok)
       ELSE Mentions(text, tok)

Token(c) == server[c].v.client.credentials.connectToken

\* C18: the bearer token of a call is in the Authorization header of its
\* outbound requests and nowhere else: not in their URL or body, not in the
\* module-level state, not in the block a tool returns (success or error,
\* JSON or markdown) and not in the record formatErrorForLogging makes of the
\* failure.
C18_TokenStaysInCall ==
  /\ globals = ModuleState
  /\ \A c \in Calls :
       (server[c].some /\ Token(c).some /\ Token(c).v # <<>>) =>
         /\ ~OccursIn(Token(c).v, globals.SERVER_NAME)
         /\ ~OccursIn(Token(c).v, globals.SERVER_VERSION)
         /\ \A i \in DOMAIN out[c] :
              /\ out[c][i].Authorization = <<"Bearer ">> \o Token(c).v
              /\ ~OccursIn(Token(c).v, out[c][i].url)
              /\ ~OccursIn(Token(c).v, out[c][i].ContentType)
              /\ out[c][i].body.some => ~Mentions(out[c][i].body.v, Token(c).v)
         /\ (pc[c] = "done" /\ call[c].some) =>
              /\ ~Handled(c).throw
              /\ ~BlockMentions(Handled(c).value, Token(c).v)
              /\ TheResult(c).throw =>
                   ~Mentions(formatErrorForLogging(TheResult(c).error), Token(c).v)

\* The backend refused the token: the request carried it, the error block does not
C18_Witness ==
  \E c \in Calls :
    /\ pc[c] = "done" /\ c \in Answered /\ Token(c).some
    /\ TheResponse(c).status = 401
    /\ out[c][1].Authorization = <<"Bearer ">> \o Token(c).v
    /\ Handled(c).value.isError = Some(TRUE)
    /\ ~BlockMentions(Handled(c).value, Token(c).v)

\* An exported function of the formatter has been applied
IsApplied(fn) == applied.some /\ applied.v.fn = fn

\* C19: for every payload of an entity kind (vault, item and file lists and
\* single objects, an activity page, a health report), the text formatResponse
\* emits in json mode parses back to a value equal to the payload.
C19_JsonRoundTrip ==
  (IsApplied("formatResponse") /\ applied.v.arg.format = "json") =>
    /\ ~applied.v.result.throw
    /\ applied.v.result.value.isError = None
    /\ Len(applied.v.result.value.content) = 1
    /\ applied.v.result.value.content[1].text.t = "string"
    /\ JSONparse(applied.v.result.value.content[1].text.s) = Returned(applied.v.arg.data)

\* A list of two vaults whose names hold a quote and a backslash comes back equal
C19_Witness ==
  /\ IsApplied("formatResponse") /\ applied.v.arg.format = "json"
  /\ applied.v.arg.entityType = "vaults"
  /\ Len(applied.v.arg.data.es) = 2
  /\ applied.v.arg.data.es[1].f["name"] = JStr(<<"a", "\"", "b">>)
  /\ applied.v.arg.data.es[2].f["name"] = JStr(<<"c", "\\", "d">>)
  /\ JSONparse(applied.v.result.value.content[1].text.s).value = applied.v.arg.data

EndsWith(text, suffix) ==
  Len(suffix) <= Len(text) /\ SubSeq(text, Len(text) - Len(suffix) + 1, Len(text)) = suffix

\* C20: formatError returns, for every thrown value (taxonomy failure, other
\* Error, value that is not an Error), one text block with isError set, whose
\* text is the JSON of {error, details}: error is 'Error: ' and the message,
\* followed by ' (retryable)' exactly when the value is a taxonomy failure
\* with retryable true; details of a taxonomy failure carry its name, message,
\* code, status and retryable flag, the retry-after seconds for RateLimitError
\* only (rendered null when they are NaN) and the field details for
\* ValidationError only.
C20_ErrorRendering ==
  IsApplied("formatError") =>
    LET error == applied.v.arg
        block == applied.v.result.value
        shown == JSONparse(block.content[1].text.s)
        retry == IsApiError(error) /\ error.retryable
        said == IF IsError(error) THEN error.message ELSE String(error.value)
        details == shown.value.f["details"]
    IN /\ ~applied.v.result.throw
       /\ block.isError = Some(TRUE)
       /\ Len(block.content) = 1 /\ block.content[1].type = "text"
       /\ ~shown.throw
       /\ DOMAIN shown.value.f = {"error", "details"}
       /\ shown.value.f["error"] =
            JStr(<<"Error: ">> \o said \o (IF retry THEN <<" (retryable)">> ELSE <<>>))
       /\ EndsWith(shown.value.f["error"].s, <<" (retryable)">>) <=> retry
       /\ IsApiError(error) =>
            /\ {"name", "message", "code", "statusCode", "retryable"} \subseteq DOMAIN details.f
            /\ details.f["name"] = JStr(error.name)
            /\ details.f["message"] = JStr(error.message)
            /\ details.f["code"] = JStr(<<error.code>>)
            /\ details.f["statusCode"] = JNum(error.statusCode)
            /\ details.f["retryable"] = JBool(error.retryable)
            /\ "retryAfterSeconds" \in DOMAIN details.f <=> error.class = "RateLimitError"
            /\ "details" \in DOMAIN details.f <=> error.class = "ValidationError"
            /\ error.class = "RateLimitError" =>
                 /\ formatErrorForLogging(error).f["retryAfterSeconds"] =
                      JsNumber(error.retryAfterSeconds)
                 /\ details.f["retryAfterSeconds"] =
                      (IF error.retryAfterSeconds.nan THEN JNull
                       ELSE JNum(error.retryAfterSeconds.n))
            /\ error.class = "ValidationError" => details.f["details"] = error.details
       /\ (IsError(error) /\ ~IsApiError(error)) =>
            /\ DOMAIN details.f = {"name", "message", "stack"}
            /\ details.f["message"] = JStr(error.message)
       /\ ~IsError(error) => details = JObj([error |-> JStr(String(error.value))])

\* A rate-limit failure: the message says retryable and the details carry the seconds
C20_Witness ==
  /\ IsApplied("formatError")
  /\ applied.v.arg.class = "RateLimitError"
  /\ applied.v.arg.retryAfterSeconds = Number(15)
  /\ applied.v.result.value.isError = Some(TRUE)
  /\ JSONparse(applied.v.result.value.content[1].text.s).value.f["error"] =
       JStr(<<"Error: ", "Rate limit exceeded", " (retryable)">>)
  /\ JSONparse(applied.v.result.value.content[1].text.s).value.f["details"].f["retryAfterSeconds"]
       = JNum(15)

\* The patterns isRetryableError looks for in the message of a failure that
\* is not of the taxonomy
RetryPatterns == {"network", "timeout", "ECONNRESET"}

\* C21: RateLimitError is the only taxonomy member built with retryable true;
\* isRetryableError returns the member's flag for a taxonomy failure whatever
\* its message says, returns true for another Error exactly when its message
\* holds 'network', 'timeout' or 'ECONNRESET', and returns false for a value
\* that is not an Error.
C21_Retryability ==
  IsApplied("isRetryableError") =>
    LET error == applied.v.arg
        answer == applied.v.result
    IN /\ IsApiError(error) =>
            /\ error.retryable <=> error.class = "RateLimitError"
            /\ answer = error.retryable
       /\ (IsError(error) /\ ~IsApiError(error)) =>
            (answer <=> \E p \in RetryPatterns : \E i \in DOMAIN error.message :
                          error.message[i] = p)
       /\ ~IsError(error) => answer = FALSE

\* A rate-limit failure is retryable although its message names no pattern,
\* and the state is one where the helper was asked about it
C21_Witness ==
  /\ IsApplied("isRetryableError")
  /\ applied.v.arg.class = "RateLimitError"
  /\ applied.v.arg.message = <<"Rate limit exceeded">>
  /\ applied.v.result = TRUE

\* A health report as the backend sends it: name, version and a list of dependencies
IsHealthReport(v) ==
  /\ v.t = "object"
  /\ {"name", "version", "dependencies"} \subseteq DOMAIN v.f
  /\ v.f["dependencies"].t = "array"

\* C22: the get-health tool in markdown mode renders the health report in the
\* health layout: the heading, the name, the version and, when there are
\* dependencies, the table headed Service / Status / Message with one row per
\* dependency.
C22_HealthLayout ==
  \A c \in Calls :
    (/\ pc[c] = "done" /\ call[c].some /\ outcome[c].some
     /\ call[c].v.tool = "get_health" /\ call[c].v.format = "markdown"
     /\ ~TheResult(c).throw /\ IsHealthReport(TheResult(c).value)) =>
      /\ ~Handled(c).throw
      /\ Handled(c).value.isError = None
      /\ "md" \in DOMAIN Handled(c).value.content[1].text
      /\ Handled(c).value.content[1].text.md = "health"
      /\ Handled(c).value.content[1].text.text =
           formatHealthAsMarkdown(TheResult(c).value).value.text
      /\ \E i \in DOMAIN Handled(c).value.content[1].text.text :
           Handled(c).value.content[1].text.text[i] = "| Service | Status | Message |"

\* n tenths is a nearest number of tenths to bytes / (1024 * unit): it lies
\* within half a tenth of it
NearestTenths(n, bytes, unit) ==
  /\ n <= (20 * bytes.k + ((20 * bytes.r) \div 1024) + unit) \div (2 * unit)
  /\ n >= (20 * bytes.k + ((20 * bytes.r + 1023) \div 1024) + unit - 1) \div (2 * unit)

\* C23: formatFileSize ends its text with exactly one unit, chosen by the
\* thresholds 1024, 1024^2 and 1024^3: below 1024 the size is printed as an
\* integer followed by ' B'; from each threshold on the size divided by the
\* unit is printed with one decimal place, to the nearest tenth, followed by
\* ' KB', ' MB' or ' GB'.  512 gives '512 B', 2048 gives '2.0 KB',
\* 5 * 1024^2 gives '5.0 MB' and 3 * 1024^3 gives '3.0 GB'.
C23_FileSizeUnits ==
  IsApplied("formatFileSize") =>
    LET bytes == applied.v.arg
        text == applied.v.result
        unit == text[Len(text)]
        number == SubSeq(text, 1, Len(text) - 1)
        divisor == CASE unit = " KB" -> 1 [] unit = " MB" -> 1024 [] OTHER -> 1024 * 1024
    IN /\ Len(text) >= 2
       /\ unit \in {" B", " KB", " MB", " GB"}
       /\ \A i \in 1..(Len(text) - 1) : text[i] \in Digits \cup {"."}
       /\ unit = " B" <=> bytes.k < 1
       /\ unit = " KB" <=> (1 <= bytes.k /\ bytes.k < 1024)
       /\ unit = " MB" <=> (1024 <= bytes.k /\ bytes.k < 1024 * 1024)
       /\ unit = " GB" <=> 1024 * 1024 <= bytes.k
       /\ unit = " B" => number = Dec(bytes.r)
       /\ unit # " B" =>
            \E n \in 0..10240 :
              /\ number = Dec(n \div 10) \o <<".", DigitChar(n % 10)>>
              /\ NearestTenths(n, bytes, divisor)
       /\ bytes = Bytes(0, 512) => text = <<"5", "1", "2", " B">>
       /\ bytes = Bytes(2, 0) => text = <<"2", ".", "0", " KB">>
       /\ bytes = Bytes(5120, 0) => text = <<"5", ".", "0", " MB">>
       /\ bytes = Bytes(3145728, 0) => text = <<"3", ".", "0", " GB">>

\* Three gigabytes are shown as '3.0 GB'
C23_Witness ==
  /\ IsApplied("formatFileSize")
  /\ applied.v.arg = Bytes(3 * 1024 * 1024, 0)
  /\ applied.v.result = <<"3", ".", "0", " GB">>

\* The knobs: the variable each reads and its default
Knobs ==
  [getCharacterLimit |-> [key |-> "CHARACTER_LIMIT", default |-> 50000],
   getDefaultPageSize |-> [key |-> "DEFAULT_PAGE_SIZE", default |-> 20],
   getMaxPageSize |-> [key |-> "MAX_PAGE_SIZE", default |-> 100]]

\* A text that begins, after any spaces and a sign, with a decimal digit
LeadingInteger(s) ==
  \E i \in DOMAIN s :
    /\ s[i] \in Digits
    /\ \A j \in 1..(i - 1) : s[j] = " " \/ (j = i - 1 /\ s[j] \in {"-", "+"})

\* C24: each of the three knobs resolves to a number, never fails and never
\* gives NaN: to its default (50000, 20, 100) when its variable is not set or
\* its text has no leading integer, and otherwise to the integer its text
\* begins with; the other variables do not matter.
C24_KnobDefaults ==
  (applied.some /\ applied.v.fn \in DOMAIN Knobs) =>
    LET knob == Knobs[applied.v.fn]
        value == applied.v.arg[knob.key]
        answer == applied.v.result
    IN /\ ~answer.nan
       /\ (~value.some \/ ~LeadingInteger(value.v)) => answer = Number(knob.default)
       /\ (value.some /\ LeadingInteger(value.v)) => answer = parseInt(value.v)
       /\ value = Some(<<"2", "0">>) => answer = Number(20)
       /\ value = Some(<<"-", "5">>) => answer = Number(-5)
       /\ value = Some(<<" ", "4", "2">>) => answer = Number(42)
       /\ value = Some(<<"1", "2", "p", "x">>) => answer = Number(12)

\* The page-size knob falls back to 20 on a text that is not a number while
\* the other two variables hold numbers
C24_Witness ==
  /\ IsApplied("getDefaultPageSize")
  /\ applied.v.arg["DEFAULT_PAGE_SIZE"] = Some(<<"x">>)
  /\ applied.v.arg["CHARACTER_LIMIT"] = Some(<<"2", "0">>)
  /\ applied.v.arg["MAX_PAGE_SIZE"] = Some(<<"-", "5">>)
  /\ applied.v.result = Number(20)

\* The closed enumerations, as the specification lists them
Categories ==
  {"LOGIN", "SECURE_NOTE", "CREDIT_CARD", "IDENTITY", "PASSWORD", "DOCUMENT", "API_CREDENTIAL",
   "DATABASE", "BANK_ACCOUNT", "CUSTOM", "DRIVER_LICENSE", "EMAIL_ACCOUNT", "MEMBERSHIP",
   "OUTDOOR_LICENSE", "PASSPORT", "REWARD_PROGRAM", "SERVER", "SOCIAL_SECURITY_NUMBER",
   "SOFTWARE_LICENSE", "SSH_KEY", "WIRELESS_ROUTER"}
FieldTypes ==
  {"STRING", "CONCEALED", "EMAIL", "URL", "OTP", "DATE", "MONTH_YEAR", "PHONE", "MENU", "FILE",
   "ADDRESS", "CREDIT_CARD_TYPE", "CREDIT_CARD_NUMBER", "REFERENCE", "SSHKEY"}
FieldPurposes == {"USERNAME", "PASSWORD", "NOTES"}
PatchOpNames == {"add", "remove", "replace", "move", "copy", "test"}

\* The string v is one of the names
OneOf(v, names) == v.t = "string" /\ \E n \in names : v.s = <<n>>

\* The call carries a value outside its enumeration: the category, the type
\* or the purpose of a field, the op of an operation
OutsideEnumeration(tc) ==
  \/ /\ tc.tool \in {"create_item", "update_item"}
     /\ \/ ~OneOf(tc.args.item.category, Categories)
        \/ /\ tc.args.item.fields.t = "array"
           /\ \E i \in DOMAIN tc.args.item.fields.es :
                LET field == tc.args.item.fields.es[i]
                IN \/ (GetProp(field, "type").t # "undefined"
                       /\ ~OneOf(GetProp(field, "type"), FieldTypes))
                   \/ (GetProp(field, "purpose").t # "undefined"
                       /\ ~OneOf(GetProp(field, "purpose"), FieldPurposes))
  \/ /\ tc.tool = "patch_item"
     /\ \E i \in DOMAIN tc.args.operations :
          ~OneOf(GetProp(tc.args.operations[i], "op"), PatchOpNames)

\* C25: a create-item or update-item call whose category, field type or
\* field purpose is outside its enumeration, and a patch-item call with an op
\* outside add/remove/replace/move/copy/test, is answered at the tool-input
\* boundary: the handler is not run, no client method settles and no outbound
\* request is issued for the call, then or later.
C25_EnumsEnforcedBeforeDispatch ==
  \A c \in Calls :
    (call[c].some /\ OutsideEnumeration(call[c].v)) =>
      /\ pc[c] = "rejected"
      /\ out[c] = <<>>
      /\ ~outcome[c].some
      /\ resp[c].some /\ resp[c].v.body.value.isError = Some(TRUE)

\* A create-item call with the category UNKNOWN was answered without a request
C25_Witness ==
  \E c \in Calls :
    /\ call[c].some /\ call[c].v.tool = "create_item"
    /\ call[c].v.args.item.category = JStr(<<"UNKNOWN">>)
    /\ pc[c] = "rejected"
    /\ out[c] = <<>>

\* The host the client of call c was built with, when one is set
HostSet(c) ==
  server[c].v.client.credentials.connectHost.some
  /\ server[c].v.client.credentials.connectHost.v # <<>>

\* C26: every outbound request of a client built with a host goes to that
\* host with one trailing slash stripped, followed by /v1 and the endpoint;
\* only a client built without a host sends to the placeholder host.
C26_BaseUrlFromHost ==
  \A c \in Calls :
    \A i \in DOMAIN out[c] :
      /\ server[c].some
      /\ IsPrefix(<<"/v1">>, SubSeq(out[c][i].url, Len(server[c].v.client.baseUrl),
                                    Len(out[c][i].url)))
      /\ HostSet(c) =>
           IsPrefix(StripTrailingSlash(server[c].v.client.credentials.connectHost.v)
                      \o <<"/v1">>, out[c][i].url)
      /\ IsPrefix(PLACEHOLDER_HOST, out[c][i].url) => ~HostSet(c)

\* The tool names the README lists under 'Available Tools'
ReadmeTools ==
  {"1password_list_vaults", "1password_get_vault", "1password_list_items",
   "1password_get_item", "1password_create_item", "1password_update_item",
   "1password_delete_item", "1password_list_files", "1password_get_file",
   "1password_get_activity", "1password_health_check"}

\* The names registered on the server built for call c
Registered(c) == {RegisteredName[t] : t \in server[c].v.tools}

\* C27: the server built for an accepted POST /mcp call registers every tool
\* name the README lists, and it registers the 15 operations: one tool for
\* each method of the client.
C27_ReadmeToolsRegistered ==
  \A c \in Calls :
    (Accepted(c) /\ server[c].some) =>
      /\ ReadmeTools \subseteq Registered(c)
      /\ Cardinality(Registered(c)) = 15
      /\ {ToolTable[t].method : t \in server[c].v.tools} = Methods

\* The events of the pipeline of call c, read from what the call has left:
\* the adapter was constructed from the call's own credentials, a tool was
\* dispatched, the backend request was issued, the backend's outcome was
\* translated, the result was returned
Constructed(c) == server[c].some
Dispatched(c) == call[c].some
Requested(c) == out[c] # <<>>
Translated(c) == outcome[c].some
ResultReturned(c) == resp[c].some

\* C28: for every POST /mcp call each event of the pipeline has the earlier
\* ones behind it: the adapter is constructed only from resolved credentials
\* that passed validation, a tool is dispatched only on a constructed adapter,
\* a backend request is issued only for a dispatched tool and in a later step
\* than the construction, the outcome is translated only after the request,
\* and the result is returned only in a later step than the request, as the
\* rendering of the translated outcome.
C28_PipelineOrder ==
  /\ [](\A c \in Calls :
          /\ Constructed(c) =>
               /\ Accepted(c)
               /\ ~validateCredentials(parseTenantCredentials(req[c].v)).throw
               /\ server[c].v.client.credentials = parseTenantCredentials(req[c].v)
          /\ Dispatched(c) => Constructed(c)
          /\ Requested(c) => Dispatched(c)
          /\ Translated(c) =>
               /\ Requested(c)
               /\ outcome[c].v.method = MethodResult(call[c].v.method, outcome[c].v.helper)
          /\ (ResultReturned(c) /\ Constructed(c)) =>
               /\ Translated(c)
               /\ resp[c].v.body = ToolHandler(call[c].v.tool, call[c].v.format,
                                               call[c].v.args, outcome[c].v.method))
  /\ [][\A c \in Calls :
          /\ (out'[c] # out[c]) => (Constructed(c) /\ ~Requested(c) /\ ~ResultReturned(c))
          /\ (ResultReturned(c)' /\ ~ResultReturned(c) /\ Constructed(c)) =>
               (Requested(c) /\ Translated(c)')]_vars

\* A call went through the whole pipeline and its backend failure came back translated and rendered
C28_Witness ==
  \E c \in Calls :
    /\ Accepted(c) /\ Constructed(c) /\ Dispatched(c) /\ Requested(c)
    /\ Translated(c) /\ outcome[c].v.helper.throw
    /\ ResultReturned(c) /\ resp[c].v.body.value.isError = Some(TRUE)

\* The result of call c: one content block of type text, which is an error
\* block (isError set) or a success block (no isError), the handler having
\* raised nothing
OneResult(c) ==
  /\ resp[c].some
  /\ ~resp[c].v.body.throw
  /\ Len(resp[c].v.body.value.content) = 1
  /\ resp[c].v.body.value.content[1].type = "text"
  /\ resp[c].v.body.value.isError \in {None, Some(TRUE)}

\* C29: when every backend HTTP call eventually completes, every tool
\* invocation eventually returns a result, which is one text block, either a
\* success block or an error block with isError set; and it returns once: a
\* result that was returned is never replaced.  The error block stands for a
\* failure (of the client method, of rendering, or of the arguments) and the
\* success block for none.
C29_ToolCallReturns ==
  /\ \A c \in Calls : call[c].some ~> OneResult(c)
  /\ [][\A c \in Calls : resp[c].some => resp'[c] = resp[c]]_vars
  /\ [](\A c \in Calls :
          (resp[c].some /\ call[c].some /\ call[c].v.tool # "test_connection") =>
            /\ OneResult(c)
            /\ resp[c].v.body.value.isError = Some(TRUE) <=>
                 \/ pc[c] = "rejected"
                 \/ (outcome[c].some /\ (ClientFailed(c) \/ RenderFailed(c))))

\* A call whose backend request was rejected by the network has returned an error block
C29_Witness ==
  \E c \in Calls :
    /\ call[c].some /\ outcome[c].some /\ ~outcome[c].v.response.some
    /\ Len(out[c]) = 1
    /\ OneResult(c) /\ resp[c].v.body.value.isError = Some(TRUE)

\* Call c carries a request that is not a POST to /mcp
OtherRoute(c) == req[c].some /\ ~McpPost(c)

\* C30: a request to /health, to /sse, to /mcp with a method other than POST,
\* or to any other path is answered at once, with 501 for /sse and 200
\* otherwise; the answer does not depend on the request's headers (two such
\* requests for the same path get the same answer, and none gets the 401 of a
\* missing credential), no client adapter or server is constructed for it and
\* no backend request is issued
C30_OtherRoutesNeedNoCredentials ==
  \A c \in Calls :
    OtherRoute(c) =>
      /\ pc[c] = "done"
      /\ resp[c].some
      /\ resp[c].v.status = (IF req[c].v.path = "/sse" THEN 501 ELSE 200)
      /\ \A d \in Calls :
           (OtherRoute(d) /\ req[d].v.path = req[c].v.path) => resp[d] = resp[c]
      /\ server[c] = None
      /\ call[c] = None
      /\ out[c] = <<>>
      /\ outcome[c] = None

\* A GET of /mcp without any credential header and a request to /sse with
\* credentials have both been answered
C30_Witness ==
  \E c, d \in Calls :
    /\ OtherRoute(c) /\ req[c].v.path = "/mcp" /\ req[c].v.method # "POST"
    /\ validateCredentials(parseTenantCredentials(req[c].v)).throw
    /\ resp[c].some /\ resp[c].v.status = 200
    /\ OtherRoute(d) /\ req[d].v.path = "/sse"
    /\ resp[d].some /\ resp[d].v.status = 501

====
